---- MODULE Spec2Model ----
(***************************************************************************)
(* Safari MCP server: the session/tab controller (Client), the request     *)
(* handler (Mcp), the page synchronizer (the three polling loops) and the  *)
(* console capture script (Browser.errorCapture), with the browser as the  *)
(* environment.                                                            *)
(*                                                                         *)
(* A request slot runs one tool handler.  A handler is the sequence of     *)
(* Client calls it awaits; a Client call is the sequence of awaited steps  *)
(* of its body.  Everything between two awaits is one step; an automation  *)
(* command (osascript) is issued and answered in one step.  Time is        *)
(* counted in ticks of 50 ms, per polling loop (Date.now() - start).       *)
(***************************************************************************)
EXTENDS Integers, Sequences, FiniteSets, TLC

VARIABLES
    active,            \* Client.active
    pageLoadTimeout,   \* Client.pageLoadTimeout, in ticks, or NaN
    conc,              \* how many requests the transport has outstanding at most
    tool,              \* per slot: the tool being handled, "none" when idle
    prog,              \* per slot: the awaited steps still to run
    phase,             \* per slot: position inside a polling loop
    elapsed,           \* per slot: Date.now() - start of the running loop
    found,             \* per slot: value returned by waitForSelector / navigateTo
    res,               \* per slot: outcome of the handler so far
    issued,            \* per slot: the request has issued an automation command
    chan,              \* the automation channel: the slot that issued the last command
    wins,              \* number of Safari windows, and of tabs in window 1
    page,              \* document in the current tab of window 1
    doc,               \* page context the capture script runs in (SpecPage)
    env,               \* the host: search provider setting, page query output
    local,             \* per slot: the search URL and temporary file of a call,
                       \* and the capture scripts one early injection ran
    call               \* a script builder or page script and its arguments

vars == <<active, pageLoadTimeout, conc, tool, prog, phase, elapsed, found,
          res, issued, chan, wins, page, doc, env, local, call>>

procVars == <<tool, prog, phase, elapsed, found, res, issued>>

----------------------------------------------------------------------------
(* Bounds *)

MaxTimeout == 2      \* largest configured timeout, in ticks
MaxCmdTime == 1      \* longest a polled query takes, in ticks
MaxWindows == 2      \* windows that exist at once
MaxTabs == 2         \* tabs per window
MaxRecords == 3      \* records a capture array holds (SpecPage)
MaxRuns == 3         \* runs of the capture script on one document (SpecPage)

(* Program constants, in ticks of 50 ms *)

EarlyInterval == 1   \* setTimeout(resolve, 50)
PollInterval == 2    \* setTimeout(resolve, 100)

Procs == {"r1", "r2"}

\* parseInt of a non-numeric setting; no elapsed time is below it, as below
\* a negative setting
NaN == -1

TimeoutValues == {NaN} \cup (0..MaxTimeout)

----------------------------------------------------------------------------
(* Steps of a Client method.  k is the kind of step, n its name, g the     *)
(* precondition checked in the same synchronous block, a its argument.     *)

Step(k, n, g, a) == [k |-> k, n |-> n, g |-> g, a |-> a]

AppleScript(n, g, a) == Step("cmd", n, g, a)

\* Client.executeScript: assertActive, then appleScript(do JavaScript ...)
executeScript(n) == << AppleScript(n, "active", 0) >>

injectErrorCapture == executeScript("errorCapture")

injectErrorCaptureEarly == << Step("early", "readyState", "none", 0) >>

waitForPageLoad == << Step("load", "readyState", "none", 0) >>

waitForSelector == << Step("wfs", "querySelector", "none", 0) >>

setTimeout == << Step("sleep", "setTimeout", "none", 0) >>

Return(n, sel) == << Step("ret", n, "none", IF sel THEN 1 ELSE 0) >>

clickElement(wait) ==
    executeScript("click") \o setTimeout
        \o (IF wait THEN waitForSelector ELSE << >>)

\* closeSession that clears the flag before it closes the window
closeSessionFlagFirst ==
    << Step("set", "active", "none", 0),
       AppleScript("closeWindow", "none", 0) >>

closeSession ==
    << AppleScript("closeWindow", "active", 0),
       Step("set", "active", "none", 0) >>

\* closeTab without its assertActive
closeTabUnchecked(index) == << AppleScript("closeTab", "none", index) >>

\* closeTab that also ends the session
closeTabEndsSession(index) ==
    << AppleScript("closeTab", "active", index),
       Step("set", "active", "none", 0) >>

closeTab(index) == << AppleScript("closeTab", "active", index) >>

getConsoleErrors == executeScript("consoleErrors")

getPageInfo == executeScript("pageInfo")

getTitle == << AppleScript("getTitle", "active", 0) >>

getUrl == << AppleScript("getUrl", "active", 0) >>

goHistory(sel) ==
    executeScript("historyGo") \o injectErrorCaptureEarly \o waitForPageLoad
        \o injectErrorCapture
        \o (IF sel THEN waitForSelector ELSE << >>)
        \o Return("goHistory", sel)

keypress == executeScript("keypress") \o setTimeout

listTabs == << AppleScript("listTabs", "active", 0) >>

\* navigateTo that polls for the selector before the load has completed
navigateToSelectorFirst(sel) ==
    << AppleScript("navigateTo", "active", 0) >>
        \o injectErrorCaptureEarly
        \o (IF sel THEN waitForSelector ELSE << >>)
        \o waitForPageLoad \o injectErrorCapture
        \o Return("navigateTo", sel)

navigateTo(sel) ==
    << AppleScript("navigateTo", "active", 0) >>
        \o injectErrorCaptureEarly \o waitForPageLoad
        \o injectErrorCapture
        \o (IF sel THEN waitForSelector ELSE << >>)
        \o Return("navigateTo", sel)

openTab(url) ==
    << AppleScript("createTab", "active", IF url THEN 1 ELSE 0) >>
        \o (IF url
            THEN injectErrorCaptureEarly \o waitForPageLoad
                     \o injectErrorCapture \o Return("openTab", FALSE)
            ELSE << >>)

\* openSession without its check of this.active
openSessionUnchecked ==
    << AppleScript("activate", "none", 0),
       AppleScript("createDocument", "none", 0),
       AppleScript("setBounds", "none", 0),
       Step("set", "active", "none", 1) >>

openSession ==
    << AppleScript("activate", "inactive", 0),
       AppleScript("createDocument", "none", 0),
       AppleScript("setBounds", "none", 0),
       Step("set", "active", "none", 1) >>

getSearchUrl == << Step("sub", "defaults", "none", 0) >>

search(sel) == getSearchUrl \o navigateTo(sel)

scrollByPixels == executeScript("scrollBy") \o setTimeout

scrollToPage(beyondFirst) ==
    (IF beyondFirst THEN getPageInfo \o executeScript("scrollTo")
                    ELSE executeScript("scrollTo"))
        \o setTimeout

switchTab(index) == << AppleScript("switchTab", "active", index) >>

takeScreenshot ==
    << AppleScript("windowId", "active", 0),
       Step("sub", "screencapture", "none", 0),
       Step("fs", "readUnlink", "none", 0) >>

typeText(submit) ==
    executeScript("typeText") \o (IF submit THEN setTimeout ELSE << >>)

----------------------------------------------------------------------------
(* Tool handlers of Mcp: the Client calls each awaits, in order.           *)

Summary == getTitle \o getUrl \o getPageInfo \o listTabs

handleClick(key, wait) ==
    Summary \o (IF key THEN keypress ELSE clickElement(wait)) \o Summary

handleClose == closeSession

handleExecute == executeScript("script")

handleNavigate(byUrl, sel) ==
    (IF byUrl THEN navigateTo(sel) ELSE goHistory(sel)) \o Summary

handleOpen == openSession

handleRead ==
    getTitle \o getUrl \o executeScript("innerText") \o getPageInfo
        \o getConsoleErrors

handleScreenshot == takeScreenshot \o getPageInfo

handleScroll(v) ==
    (CASE v = "page1" -> scrollToPage(FALSE)
       [] v = "pageN" -> scrollToPage(TRUE)
       [] v = "pixels" -> scrollByPixels
       [] OTHER -> getPageInfo \o scrollByPixels)
        \o getPageInfo

handleSearch == search(FALSE) \o Summary

handleType(submit) == typeText(submit)

handleWindow(v, index) ==
    CASE v = "list" -> listTabs
      [] v = "switch" -> switchTab(index) \o listTabs
      [] v = "close" -> closeTab(index) \o listTabs
      [] v = "open" -> openTab(FALSE) \o listTabs
      [] OTHER -> openTab(TRUE) \o listTabs

Req(t, v, b, i) == [tool |-> t, v |-> v, b |-> b, i |-> i]

Requests ==
    {Req(t, "", FALSE, 0) :
        t \in {"open", "close", "execute", "read", "screenshot", "search"}}
    \cup {Req("click", v, b, 0) : v \in {"key", "element"}, b \in BOOLEAN}
    \cup {Req("navigate", v, b, 0) : v \in {"url", "history"}, b \in BOOLEAN}
    \cup {Req("scroll", v, FALSE, 0) :
             v \in {"page1", "pageN", "pixels", "viewport"}}
    \cup {Req("type", "", b, 0) : b \in BOOLEAN}
    \cup {Req("window", v, FALSE, 0) : v \in {"list", "open", "openUrl"}}
    \cup {Req("window", v, FALSE, i) :
             v \in {"switch", "close"}, i \in 1..(MaxTabs + 1)}

\* the requests delivered while another one is outstanding: the two that
\* change the session flag
Overlapping == {r \in Requests : r.tool \in {"open", "close"}}

toolHandlers(r) ==
    CASE r.tool = "click" -> handleClick(r.v = "key", r.b)
      [] r.tool = "close" -> handleClose
      [] r.tool = "execute" -> handleExecute
      [] r.tool = "navigate" -> handleNavigate(r.v = "url", r.b)
      [] r.tool = "open" -> handleOpen
      [] r.tool = "read" -> handleRead
      [] r.tool = "screenshot" -> handleScreenshot
      [] r.tool = "scroll" -> handleScroll(r.v)
      [] r.tool = "search" -> handleSearch
      [] r.tool = "type" -> handleType(r.b)
      [] OTHER -> handleWindow(r.v, r.i)

NoSession == "No active session"
AlreadyActive == "A session is already active"
CmdFailed == "osascript failed"
LookupFailed == "provider lookup failed"
CaptureFailed == "screencapture failed"
NoIdentifier == "Cannot read properties of null"
ReadFailed == "readFileSync failed"
ParseFailed == "Unexpected token in JSON"

\* Client.assertActive and the check that opens openSession
assertActive == active

Precondition(g) ==
    CASE g = "active" -> assertActive
      [] g = "inactive" -> ~active
      [] OTHER -> TRUE

PreconditionError(g) == IF g = "active" THEN NoSession ELSE AlreadyActive

\* Date.now() - start < this.pageLoadTimeout
TimeLeft(e) == e < pageLoadTimeout

----------------------------------------------------------------------------
(* The browser *)

BlankPage == [ready |-> "complete", cap |-> FALSE, pending |-> FALSE,
              sel |-> FALSE]

\* the document of a tab or window that comes to the front
OtherPages ==
    {[ready |-> "complete", cap |-> c, pending |-> FALSE, sel |-> s] :
        c \in BOOLEAN, s \in BOOLEAN}

NoWindow == [n |-> 0, tabs |-> 0]

HasWindow == wins.n > 0

Browser(w, d) == [wins |-> w, page |-> d]

\* window 1 goes away; the window behind it, if any, comes to the front
CloseFront ==
    IF wins.n = 1 THEN {Browser(NoWindow, BlankPage)}
    ELSE {Browser([n |-> wins.n - 1, tabs |-> t], d) :
             t \in 1..MaxTabs, d \in OtherPages}

\* what a command that Safari accepts does to the browser; empty when
\* Safari rejects it
Outcomes(n, a) ==
    CASE n = "activate" -> {Browser(wins, page)}
      [] n = "createDocument" ->
            {Browser([n |-> wins.n + 1, tabs |-> 1], BlankPage)}
      [] ~HasWindow -> {}
      [] n = "closeWindow" -> CloseFront
      [] n = "closeTab" ->
            IF a > wins.tabs THEN {}
            ELSE IF wins.tabs = 1 THEN CloseFront
            ELSE {Browser([wins EXCEPT !.tabs = @ - 1], d) :
                     d \in {page} \cup OtherPages}
      [] n = "switchTab" ->
            IF a > wins.tabs THEN {}
            ELSE {Browser(wins, d) : d \in {page} \cup OtherPages}
      [] n = "createTab" ->
            {Browser([wins EXCEPT !.tabs = @ + 1],
                     [BlankPage EXCEPT !.pending = (a = 1)])}
      [] n = "navigateTo" -> {Browser(wins, [page EXCEPT !.pending = TRUE])}
      [] n \in {"historyGo", "script", "click", "keypress", "typeText"} ->
            {Browser(wins, page), Browser(wins, [page EXCEPT !.pending = TRUE])}
      [] n = "errorCapture" -> {Browser(wins, [page EXCEPT !.cap = TRUE])}
      [] OTHER -> {Browser(wins, page)}

\* the counters of the model stay within their bounds
WithinBounds(n) ==
    /\ n = "createDocument" => wins.n < MaxWindows
    /\ n = "createTab" => wins.tabs < MaxTabs

----------------------------------------------------------------------------
(* The host: what the subprocesses and the page queries answer, and what   *)
(* a call of the Client keeps between its steps.                           *)

MaxLabels == 2      \* labels of a provider identifier
MaxQuery == 1       \* characters of a search query

Labels == {"com", "google"}

QueryChars == {"a", " ", "&"}

\* what the host answers: the labels of NSProviderIdentifier (none when the
\* output of defaults has no identifier), whether page queries return
\* unparsable output, and the query users search for
HostDefaults ==
    [provider |-> <<"com", "google">>, malformed |-> FALSE,
     query |-> <<"a">>]

\* the hosts of SpecEnv differ from HostDefaults in one answer
Hosts ==
    {[HostDefaults EXCEPT !.provider = i] :
        i \in UNION {[1..k -> Labels] : k \in 0..MaxLabels}}
    \cup {[HostDefaults EXCEPT !.query = q] :
              q \in UNION {[1..k -> QueryChars] : k \in 0..MaxQuery}}
    \cup {[HostDefaults EXCEPT !.malformed = TRUE]}

NoUrl == [host |-> << >>, query |-> << >>]

NoLocal == [url |-> NoUrl, tmp |-> FALSE, runs |-> 0]

Idle == [op |-> "none"]

----------------------------------------------------------------------------
(* Bookkeeping of a slot *)

Continue(p) ==
    /\ prog' = [prog EXCEPT ![p] = Tail(@)]
    /\ res' = [res EXCEPT ![p] = IF Tail(prog[p]) = << >> THEN "ok" ELSE @]
    /\ phase' = [phase EXCEPT ![p] = "poll"]
    /\ elapsed' = [elapsed EXCEPT ![p] = 0]

Throw(p, e) ==
    /\ prog' = [prog EXCEPT ![p] = << >>]
    /\ res' = [res EXCEPT ![p] = e]
    /\ phase' = [phase EXCEPT ![p] = "poll"]
    /\ elapsed' = [elapsed EXCEPT ![p] = 0]

Stay(p, ph, dt) ==
    /\ phase' = [phase EXCEPT ![p] = ph]
    /\ elapsed' = [elapsed EXCEPT ![p] = @ + dt]
    /\ UNCHANGED <<prog, res>>

\* Client.appleScript: execFile('osascript', ...)
Issue(p) ==
    /\ chan' = p
    /\ issued' = [issued EXCEPT ![p] = TRUE]

At(p, k) == prog[p] # << >> /\ Head(prog[p]).k = k

InFlight == {p \in Procs : tool[p] # "none"}

----------------------------------------------------------------------------
(* Mcp.handleRequest *)

Deliver(p, r) ==
    /\ tool[p] = "none"
    /\ Cardinality(InFlight) < conc
    /\ InFlight # {} => r \in Overlapping
    /\ tool' = [tool EXCEPT ![p] = r.tool]
    /\ prog' = [prog EXCEPT ![p] = toolHandlers(r)]
    /\ UNCHANGED <<active, pageLoadTimeout, conc, phase, elapsed, found, res,
                   issued, chan, wins, page, doc, env, local, call>>

Respond(p) ==
    /\ tool[p] # "none"
    /\ prog[p] = << >>
    /\ tool' = [tool EXCEPT ![p] = "none"]
    /\ res' = [res EXCEPT ![p] = "none"]
    /\ found' = [found EXCEPT ![p] = "none"]
    /\ issued' = [issued EXCEPT ![p] = FALSE]
    /\ local' = [local EXCEPT ![p] = NoLocal]
    /\ UNCHANGED <<active, pageLoadTimeout, conc, prog, phase, elapsed, chan,
                   wins, page, doc, env, call>>

----------------------------------------------------------------------------
(* Steps of the Client *)

\* JSON.parse(result) outside a try block (getPageInfo), on output that is
\* no JSON; getConsoleErrors and listTabs parse inside one
Unparsed(n) == env.malformed /\ n = "pageInfo"

\* an automation command, after the precondition of its synchronous block
appleScript(p) ==
    /\ At(p, "cmd")
    /\ LET i == Head(prog[p]) IN
         IF ~Precondition(i.g)
         THEN /\ Throw(p, PreconditionError(i.g))
              /\ UNCHANGED <<chan, issued, wins, page>>
         ELSE /\ WithinBounds(i.n)
              /\ Issue(p)
              /\ \/ \E b \in Outcomes(i.n, i.a) :
                       /\ wins' = b.wins
                       /\ page' = b.page
                       /\ IF Unparsed(i.n) THEN Throw(p, ParseFailed)
                          ELSE Continue(p)
                 \/ /\ Throw(p, CmdFailed)
                    /\ UNCHANGED <<wins, page>>
    /\ UNCHANGED <<active, pageLoadTimeout, conc, tool, found,
                   doc, env, local, call>>

\* this.active = true / this.active = false
SetActive(p) ==
    /\ At(p, "set")
    /\ active' = (Head(prog[p]).a = 1)
    /\ Continue(p)
    /\ UNCHANGED <<pageLoadTimeout, conc, tool, found, issued, chan, wins,
                   page, doc, env, local, call>>

\* await new Promise((resolve) => setTimeout(resolve, ...)) outside a loop
Sleep(p) ==
    /\ At(p, "sleep")
    /\ Continue(p)
    /\ UNCHANGED <<active, pageLoadTimeout, conc, tool, found, issued, chan,
                   wins, page, doc, env, local, call>>

\* output.match(/NSProviderIdentifier\s*=\s*"([^"]+)"/) finds an identifier
MatchedOrDefault(identifier) == TRUE

Matched(identifier) == identifier # << >>

RECURSIVE reverse(_)
\* match[1].split('.').reverse(), on the labels of the identifier
reverse(labels) ==
    IF labels = << >> THEN << >>
    ELSE reverse(Tail(labels)) \o <<Head(labels)>>

RECURSIVE encodeURIComponent(_)
encodeURIComponent(str) ==
    IF str = << >> THEN << >>
    ELSE (CASE Head(str) = " " -> <<"%", "2", "0">>
            [] Head(str) = "&" -> <<"%", "2", "6">>
            [] Head(str) = "%" -> <<"%", "2", "5">>
            [] OTHER -> <<Head(str)>>)
            \o encodeURIComponent(Tail(str))

\* new URL('/search?q=' + encodeURIComponent(query), 'https://' + domain)
SearchUrl(identifier, query) ==
    [host |-> reverse(identifier), query |-> encodeURIComponent(query)]

\* execFile of defaults (getSearchUrl) and of screencapture (takeScreenshot).
\* Nothing but screencapture and the Client touches the temporary file.
Subprocess(p) ==
    /\ At(p, "sub")
    /\ IF Head(prog[p]).n = "defaults"
       THEN \/ Throw(p, LookupFailed) /\ UNCHANGED local
            \/ IF Matched(env.provider)
               THEN /\ Continue(p)
                    /\ local' = [local EXCEPT
                                    ![p].url = SearchUrl(env.provider,
                                                         env.query)]
               ELSE Throw(p, NoIdentifier) /\ UNCHANGED local
       ELSE \/ Continue(p) /\ local' = [local EXCEPT ![p].tmp = TRUE]
            \/ Throw(p, CaptureFailed) /\ UNCHANGED local
    /\ UNCHANGED <<active, pageLoadTimeout, conc, tool, found, issued, chan,
                   wins, page, doc, env, call>>

\* readFileSync(tmpFile); unlinkSync(tmpFile);
ReadFile(p) ==
    /\ At(p, "fs")
    /\ \/ Continue(p) /\ local' = [local EXCEPT ![p].tmp = FALSE]
       \/ Throw(p, ReadFailed) /\ UNCHANGED local
    /\ UNCHANGED <<active, pageLoadTimeout, conc, tool, found, issued, chan,
                   wins, page, doc, env, call>>

\* if (selector) { return await this.waitForSelector(selector); } return true;
ReturnValue(p) ==
    /\ At(p, "ret")
    /\ found' = [found EXCEPT ![p] =
                    IF Head(prog[p]).a = 0 /\ Head(prog[p]).n # "openTab"
                    THEN "true" ELSE @]
    /\ Continue(p)
    /\ UNCHANGED <<active, pageLoadTimeout, conc, tool, issued, chan, wins,
                   page, doc, env, local, call>>

----------------------------------------------------------------------------
(* The polling loops *)

Interval(k) == IF k = "early" THEN EarlyInterval ELSE PollInterval

\* injectErrorCaptureEarly: one sample of document.readyState
EarlyPoll(p) ==
    /\ At(p, "early")
    /\ phase[p] = "poll"
    /\ IF ~TimeLeft(elapsed[p])
       THEN Continue(p) /\ UNCHANGED <<chan, issued>>
       ELSE IF ~assertActive
       THEN Stay(p, "sleep", 0) /\ UNCHANGED <<chan, issued>>
       ELSE /\ Issue(p)
            /\ \E d \in 0..MaxCmdTime :
                 \/ Stay(p, "sleep", d)
                 \/ /\ HasWindow
                    /\ IF page.ready = "complete"
                       THEN Continue(p)
                       ELSE Stay(p, "inject", d)
    /\ local' = [local EXCEPT ![p].runs = IF prog'[p] = prog[p] THEN @ ELSE 0]
    /\ UNCHANGED <<active, pageLoadTimeout, conc, tool, found, wins, page,
                   doc, env, call>>

\* injectErrorCaptureEarly whose catch does not cover the capture script
EarlyInjectRaises(p) ==
    /\ At(p, "early")
    /\ phase[p] = "inject"
    /\ IF ~assertActive
       THEN Throw(p, NoSession) /\ UNCHANGED <<chan, issued, page>>
       ELSE /\ Issue(p)
            /\ \/ Throw(p, CmdFailed) /\ UNCHANGED page
               \/ /\ HasWindow
                  /\ page' = [page EXCEPT !.cap = TRUE]
                  /\ Continue(p)
    /\ local' = [local EXCEPT ![p].runs = 0]
    /\ UNCHANGED <<active, pageLoadTimeout, conc, tool, found, wins,
                   doc, env, call>>

\* injectErrorCaptureEarly: the capture script, after 'loading'/'interactive'
EarlyInject(p) ==
    /\ At(p, "early")
    /\ phase[p] = "inject"
    /\ IF ~assertActive
       THEN Stay(p, "sleep", 0) /\ UNCHANGED <<chan, issued, page, local>>
       ELSE /\ Issue(p)
            /\ \/ /\ Stay(p, "sleep", 0)
                  /\ local' = [local EXCEPT ![p].runs = @ + 1]
                  /\ UNCHANGED page
               \/ /\ HasWindow
                  /\ page' = [page EXCEPT !.cap = TRUE]
                  /\ local' = [local EXCEPT ![p].runs = 0]
                  /\ Continue(p)
    /\ UNCHANGED <<active, pageLoadTimeout, conc, tool, found, wins,
                   doc, env, call>>

\* the setTimeout that ends an iteration of a polling loop
PollSleep(p) ==
    /\ prog[p] # << >>
    /\ Head(prog[p]).k \in {"early", "load", "wfs"}
    /\ phase[p] = "sleep"
    /\ Stay(p, "poll", Interval(Head(prog[p]).k))
    /\ UNCHANGED <<active, pageLoadTimeout, conc, tool, found, issued, chan,
                   wins, page, doc, env, local, call>>

\* waitForPageLoad that raises an error when the time is up
LoadTimedOutThrows(p) == Throw(p, "Page load timed out")

\* waitForPageLoad when the loop condition fails on the time: falls out of
\* the loop and returns
LoadTimedOut(p) == Continue(p)

\* waitForPageLoad: one sample of document.readyState
LoadPoll(p) ==
    /\ At(p, "load")
    /\ phase[p] = "poll"
    /\ IF ~TimeLeft(elapsed[p])
       THEN LoadTimedOut(p) /\ UNCHANGED <<chan, issued>>
       ELSE IF ~assertActive
       THEN Throw(p, NoSession) /\ UNCHANGED <<chan, issued>>
       ELSE /\ Issue(p)
            /\ \E d \in 0..MaxCmdTime :
                 \/ Throw(p, CmdFailed)
                 \/ /\ HasWindow
                    /\ IF page.ready = "complete"
                       THEN Continue(p)
                       ELSE Stay(p, "sleep", d)
    /\ UNCHANGED <<active, pageLoadTimeout, conc, tool, found, wins, page,
                   doc, env, local, call>>

\* waitForSelector that reports the selector as found when the time is up
SelectorTimedOutTrue(p) ==
    /\ found' = [found EXCEPT ![p] = "true"]
    /\ Continue(p)

\* waitForSelector when the loop condition fails: return false
SelectorTimedOut(p) ==
    /\ found' = [found EXCEPT ![p] = "false"]
    /\ Continue(p)

\* waitForSelector: one sample of document.querySelector(...) !== null
SelectorPoll(p) ==
    /\ At(p, "wfs")
    /\ phase[p] = "poll"
    /\ IF ~TimeLeft(elapsed[p])
       THEN SelectorTimedOut(p) /\ UNCHANGED <<chan, issued>>
       ELSE IF ~assertActive
       THEN Throw(p, NoSession) /\ UNCHANGED <<chan, issued, found>>
       ELSE /\ Issue(p)
            /\ \E d \in 0..MaxCmdTime :
                 \/ Throw(p, CmdFailed) /\ UNCHANGED found
                 \/ /\ HasWindow
                    /\ IF page.sel
                       THEN /\ found' = [found EXCEPT ![p] = "true"]
                            /\ Continue(p)
                       ELSE Stay(p, "sleep", d) /\ UNCHANGED found
    /\ UNCHANGED <<active, pageLoadTimeout, conc, tool, wins, page,
                   doc, env, local, call>>

----------------------------------------------------------------------------
(* Steps of the browser *)

\* the requested navigation replaces the document
Commit ==
    /\ HasWindow
    /\ page.pending
    /\ page' = [ready |-> "loading", cap |-> FALSE, pending |-> FALSE,
                sel |-> FALSE]
    /\ UNCHANGED <<active, pageLoadTimeout, conc, procVars, chan, wins,
                   doc, env, local, call>>

Progress ==
    /\ HasWindow
    /\ page.ready # "complete"
    /\ page' = [page EXCEPT !.ready =
                    IF @ = "loading" THEN "interactive" ELSE "complete"]
    /\ UNCHANGED <<active, pageLoadTimeout, conc, procVars, chan, wins,
                   doc, env, local, call>>

SelectorAppears ==
    /\ HasWindow
    /\ ~page.sel
    /\ page' = [page EXCEPT !.sel = TRUE]
    /\ UNCHANGED <<active, pageLoadTimeout, conc, procVars, chan, wins,
                   doc, env, local, call>>

----------------------------------------------------------------------------

(* The page context of Browser.errorCapture (SpecPage).  marked is        *)
(* window.__safariErrors being set; errorWrappers and warnWrappers count   *)
(* the functions layered over console.error and console.warn; native is    *)
(* the number of calls the latest event made to the original console       *)
(* handler.                                                                *)

FreshDoc ==
    [marked |-> FALSE, errors |-> << >>, warnings |-> << >>,
     errorWrappers |-> 0, warnWrappers |-> 0, onerror |-> FALSE,
     listeners |-> 0, runs |-> 0, native |-> 0]

Repeat(x, n) == [i \in 1..n |-> x]

\* errorCapture that installs without looking at the marker
errorCaptureUnmarked(d) ==
    [d EXCEPT !.marked = TRUE, !.errors = << >>, !.warnings = << >>,
              !.errorWrappers = @ + 1, !.warnWrappers = @ + 1,
              !.onerror = TRUE, !.listeners = @ + 1]

\* the script of Browser.errorCapture, run in page context d
errorCapture(d) ==
    IF d.marked THEN d
    ELSE [d EXCEPT !.marked = TRUE, !.errors = << >>, !.warnings = << >>,
                   !.errorWrappers = @ + 1, !.warnWrappers = @ + 1,
                   !.onerror = TRUE, !.listeners = @ + 1]

clientVars ==
    <<active, pageLoadTimeout, conc, procVars, chan, wins, page, env, local,
      call>>

RunErrorCapture ==
    /\ doc.runs < MaxRuns
    /\ doc' = [errorCapture(doc) EXCEPT !.runs = @ + 1]
    /\ UNCHANGED clientVars

\* the page calls console.error: every wrapper pushes a record and calls
\* the function it replaced; the innermost is the original
ConsoleError ==
    /\ Len(doc.errors) + doc.errorWrappers <= MaxRecords
    /\ doc' = [doc EXCEPT
                  !.errors = @ \o Repeat("console.error", doc.errorWrappers),
                  !.native = 1]
    /\ UNCHANGED clientVars

ConsoleWarn ==
    /\ Len(doc.warnings) + doc.warnWrappers <= MaxRecords
    /\ doc' = [doc EXCEPT
                  !.warnings = @ \o Repeat("console.warn", doc.warnWrappers),
                  !.native = 1]
    /\ UNCHANGED clientVars

\* an uncaught error reaches window.onerror
UncaughtError ==
    /\ Len(doc.errors) < MaxRecords
    /\ doc' = [doc EXCEPT
                  !.errors = IF doc.onerror THEN Append(@, "error") ELSE @,
                  !.native = 0]
    /\ UNCHANGED clientVars

\* an unhandled rejection reaches every 'unhandledrejection' listener
UnhandledRejection ==
    /\ Len(doc.errors) + doc.listeners <= MaxRecords
    /\ doc' = [doc EXCEPT
                  !.errors = @ \o Repeat("Unhandled rejection", doc.listeners),
                  !.native = 0]
    /\ UNCHANGED clientVars

\* navigation replaces the page context
NewDocument ==
    /\ doc # FreshDoc
    /\ doc' = FreshDoc
    /\ UNCHANGED clientVars

NextPage ==
    \/ RunErrorCapture
    \/ ConsoleError
    \/ ConsoleWarn
    \/ UncaughtError
    \/ UnhandledRejection
    \/ NewDocument

----------------------------------------------------------------------------
(* Viewport pagination (SpecScroll): Client.getPageInfo and                *)
(* Client.scrollToPage on a page of the given geometry.                    *)

MaxInnerHeight == 2     \* largest window.innerHeight
MaxScrollHeight == 5    \* largest document.body.scrollHeight
MaxPage == 5            \* largest requested page

Min(a, b) == IF a < b THEN a ELSE b

\* Math.ceil(scrollHeight / innerHeight)
Pages(scrollHeight, innerHeight) ==
    (scrollHeight + innerHeight - 1) \div innerHeight

\* the argument of window.scrollTo(0, ...) in scrollToPage
ScrollY(pg, scrollHeight, innerHeight) ==
    IF pg > 1
    THEN LET pages == Pages(scrollHeight, innerHeight)
             targetPage == Min(pg, pages)
         IN (targetPage - 1) * innerHeight
    ELSE 0

ScrollCalls ==
    {[op |-> "scrollToPage", page |-> pg, innerHeight |-> ih,
      scrollHeight |-> sh, pages |-> 0, scrollY |-> 0, stage |-> "start"] :
        pg \in (-1)..MaxPage, ih \in 1..MaxInnerHeight,
        sh \in 0..MaxScrollHeight}

scriptFrame ==
    <<active, pageLoadTimeout, conc, procVars, chan, wins, page, doc, env,
      local>>

\* if (page > 1) { const { innerHeight, pages } = await this.getPageInfo();
ScrollGetPageInfo ==
    /\ call.op = "scrollToPage" /\ call.stage = "start"
    /\ call.page > 1
    /\ call' = [call EXCEPT
                   !.pages = Pages(call.scrollHeight, call.innerHeight),
                   !.stage = "info"]
    /\ UNCHANGED scriptFrame

\* await this.executeScript(`window.scrollTo(0, ${scrollY})`)
ScrollTo ==
    /\ call.op = "scrollToPage"
    /\ \/ call.stage = "start" /\ call.page <= 1
       \/ call.stage = "info"
    /\ call' = [call EXCEPT
                   !.scrollY = ScrollY(call.page, call.scrollHeight,
                                       call.innerHeight),
                   !.stage = "scrolled"]
    /\ UNCHANGED scriptFrame

\* handleScroll: the getPageInfo that follows the scroll
ScrollReport ==
    /\ call.op = "scrollToPage" /\ call.stage = "scrolled"
    /\ call' = [call EXCEPT
                   !.pages = Pages(call.scrollHeight, call.innerHeight),
                   !.stage = "reported"]
    /\ UNCHANGED scriptFrame

NextScroll ==
    \/ ScrollGetPageInfo
    \/ ScrollTo
    \/ ScrollReport

----------------------------------------------------------------------------
(* Script building (SpecScript): Browser.serialize, Automation.executeScript *)
(* and the reading of the AppleScript text by osascript and of the call     *)
(* expression by the page.  Text is a sequence of characters; the function  *)
(* source and the fixed parts of the template are single tokens.            *)

MaxScript == 3      \* characters of a script passed to executeScript
MaxArgLen == 2      \* characters of a string argument of serialize
MaxArgs == 2        \* arguments of serialize

BS == "\\"
DQ == "\""
SQ == "'"

ScriptChars == {BS, DQ, SQ, "$", "&", "a"}
ArgChars == {BS, DQ, SQ, "$"}

Strings(chars, n) == UNION {[1..k -> chars] : k \in 0..n}

String(t) == [t |-> "string", s |-> t]
Number == [t |-> "number", s |-> <<"42">>]
Unrepresentable ==
    {[t |-> k, s |-> << >>] : k \in {"undefined", "function", "circular"}}

Values == {String(t) : t \in Strings(ArgChars, MaxArgLen)} \cup {Number}
            \cup Unrepresentable

RECURSIVE ReplaceAll(_, _, _)
\* s.replace(/c/g, r)
ReplaceAll(s, c, r) ==
    IF s = << >> THEN << >>
    ELSE (IF Head(s) = c THEN r ELSE <<Head(s)>>)
            \o ReplaceAll(Tail(s), c, r)

\* .replace(/\\/g, '\\\\').replace(/"/g, '\\"')
Escaped(script) == ReplaceAll(ReplaceAll(script, BS, <<BS, BS>>), DQ, <<BS, DQ>>)

\* JSON.stringify: undefined for undefined and functions, a TypeError for a
\* circular structure
JSONstringify(v) ==
    CASE v.t = "string" ->
            [threw |-> FALSE, defined |-> TRUE,
             text |-> <<DQ>> \o Escaped(v.s) \o <<DQ>>]
      [] v.t = "number" -> [threw |-> FALSE, defined |-> TRUE, text |-> v.s]
      [] v.t = "circular" ->
            [threw |-> TRUE, defined |-> FALSE, text |-> << >>]
      [] OTHER -> [threw |-> FALSE, defined |-> FALSE, text |-> << >>]

RECURSIVE join(_, _)
\* Array.prototype.join: undefined elements become the empty string
join(a, sep) ==
    IF a = << >> THEN << >>
    ELSE IF Len(a) = 1 THEN Head(a).text
    ELSE Head(a).text \o sep \o join(Tail(a), sep)

Fn == "function script(...) {...}"

\* Browser.serialize
serialize(args) ==
    LET params == [i \in 1..Len(args) |-> JSONstringify(args[i])] IN
      IF \E i \in 1..Len(args) : params[i].threw
      THEN [threw |-> TRUE, text |-> << >>]
      ELSE [threw |-> FALSE,
            text |-> <<"(", Fn, ")", "(">> \o join(params, <<",", " ">>)
                        \o <<")">>]

\* the executeScript template of osaScripts
Placeholder == "{{SCRIPT}}"
Before == <<"tell application \"Safari\" to do JavaScript ", DQ>>
After == <<DQ, " in current tab of window 1">>
osaExecuteScript == Before \o <<Placeholder>> \o After

RECURSIVE GetSubstitution(_, _, _, _)
\* the replacement text of String.prototype.replace: $$ is a dollar sign, $&
\* the matched text and $' the text behind the match (the text before the
\* match needs a character that ScriptChars and ArgChars do not have)
GetSubstitution(r, matched, before, after) ==
    IF r = << >> THEN << >>
    ELSE IF Head(r) = "$" /\ Len(r) >= 2 /\ r[2] \in {"$", "&", SQ}
    THEN (CASE r[2] = "$" -> <<"$">>
            [] r[2] = "&" -> matched
            [] OTHER -> after)
            \o GetSubstitution(SubSeq(r, 3, Len(r)), matched, before, after)
    ELSE <<Head(r)>> \o GetSubstitution(Tail(r), matched, before, after)

\* template.replace(pattern, replacement), the pattern a string
replace(template, pattern, replacement) ==
    IF \A i \in 1..Len(template) : template[i] # pattern THEN template
    ELSE LET i == CHOOSE j \in 1..Len(template) :
                     /\ template[j] = pattern
                     /\ \A k \in 1..(j - 1) : template[k] # pattern
             before == SubSeq(template, 1, i - 1)
             after == SubSeq(template, i + 1, Len(template))
         IN before \o GetSubstitution(replacement, <<pattern>>, before, after)
                   \o after

\* Automation.executeScript
AutomationExecuteScript(script) ==
    replace(osaExecuteScript, Placeholder, Escaped(script))

RECURSIVE ReadQuoted(_)
\* a double-quoted literal, read from behind its opening quote: a backslash
\* takes the next character, a quote closes the literal
ReadQuoted(s) ==
    IF s = << >> THEN [value |-> << >>, rest |-> << >>, closed |-> FALSE]
    ELSE IF Head(s) = DQ
    THEN [value |-> << >>, rest |-> Tail(s), closed |-> TRUE]
    ELSE IF Head(s) = BS /\ Len(s) >= 2
    THEN LET r == ReadQuoted(SubSeq(s, 3, Len(s)))
         IN [r EXCEPT !.value = <<s[2]>> \o @]
    ELSE LET r == ReadQuoted(Tail(s))
         IN [r EXCEPT !.value = <<Head(s)>> \o @]

\* osascript compiles the text: the script Safari is given, when the text
\* still is one do JavaScript "..." in current tab of window 1
Compiled(osa) ==
    LET n == Len(Before)
        lit == ReadQuoted(SubSeq(osa, n + 1, Len(osa)))
    IN IF Len(osa) > n /\ SubSeq(osa, 1, n) = Before /\ lit.closed
          /\ lit.rest = Tail(After)
       THEN [ok |-> TRUE, script |-> lit.value]
       ELSE [ok |-> FALSE, script |-> << >>]

RECURSIVE ReadArguments(_)
\* the page reads the argument list of the call expression: literals
\* separated by commas, up to the closing parenthesis
ReadArguments(s) ==
    LET Next1(v, rest) ==
            IF rest = <<")">> THEN [ok |-> TRUE, values |-> <<v>>]
            ELSE IF Len(rest) > 2 /\ SubSeq(rest, 1, 2) = <<",", " ">>
            THEN LET r == ReadArguments(SubSeq(rest, 3, Len(rest)))
                 IN [r EXCEPT !.values = <<v>> \o @]
            ELSE [ok |-> FALSE, values |-> << >>]
    IN IF s = << >> THEN [ok |-> FALSE, values |-> << >>]
       ELSE IF Head(s) = DQ
       THEN LET lit == ReadQuoted(Tail(s))
            IN IF lit.closed THEN Next1(String(lit.value), lit.rest)
               ELSE [ok |-> FALSE, values |-> << >>]
       ELSE IF <<Head(s)>> = Number.s THEN Next1(Number, Tail(s))
       ELSE [ok |-> FALSE, values |-> << >>]

\* the arguments the function is called with when the page evaluates the
\* script
Evaluate(script) ==
    IF Len(script) >= 5 /\ SubSeq(script, 1, 4) = <<"(", Fn, ")", "(">>
    THEN IF Len(script) = 5 /\ script[5] = ")"
         THEN [ok |-> TRUE, values |-> << >>]
         ELSE ReadArguments(SubSeq(script, 5, Len(script)))
    ELSE [ok |-> FALSE, values |-> << >>]

NoResult == [ok |-> FALSE, values |-> << >>]

ScriptCall(origin, args, script, stage) ==
    [op |-> "script", origin |-> origin, args |-> args, script |-> script,
     osa |-> << >>, received |-> [ok |-> FALSE, script |-> << >>],
     got |-> NoResult, stage |-> stage]

ScriptCalls(chars, values) ==
    {ScriptCall("execute", << >>, t, "script") :
        t \in Strings(chars, MaxScript)}
    \cup {ScriptCall("serialize", a, << >>, "args") :
             a \in Strings(values, MaxArgs)}

\* return this.serialize(script, ...)
Serialize ==
    /\ call.op = "script" /\ call.stage = "args"
    /\ LET r == serialize(call.args) IN
         call' = [call EXCEPT !.script = r.text,
                              !.stage = IF r.threw THEN "threw" ELSE "script"]
    /\ UNCHANGED scriptFrame

\* this.automation.executeScript(wrapped)
BuildAppleScript ==
    /\ call.op = "script" /\ call.stage = "script"
    /\ call' = [call EXCEPT !.osa = AutomationExecuteScript(call.script),
                            !.stage = "osa"]
    /\ UNCHANGED scriptFrame

\* osascript -e: Safari runs the script it is given
DoJavaScript ==
    /\ call.op = "script" /\ call.stage = "osa"
    /\ LET c == Compiled(call.osa) IN
         call' = [call EXCEPT
                     !.received = c,
                     !.got = IF c.ok /\ call.origin = "serialize"
                             THEN Evaluate(c.script) ELSE NoResult,
                     !.stage = "run"]
    /\ UNCHANGED scriptFrame

NextScript ==
    \/ Serialize
    \/ BuildAppleScript
    \/ DoJavaScript

----------------------------------------------------------------------------
(* The click scripts of Browser, run in a page (SpecClick, SpecVisible).    *)
(* A document is the sequence of its elements in document order.  A string  *)
(* of the page is known by its length and by whether it contains the        *)
(* search text; an element carries its aria-label and its textContent (no   *)
(* value, no alt) and what getBoundingClientRect and getComputedStyle       *)
(* report of it.  The ranking compares lengths only, so a string is short   *)
(* (length 1) or long (length 2).                                           *)

MaxElems == 2       \* elements of a document

Str(len, has) == [len |-> len, has |-> has]

Empty == Str(0, FALSE)

Shown ==
    [width |-> 1, height |-> 1, display |-> "block",
     visibility |-> "visible", opacity |-> "1"]

Undisplayed == [Shown EXCEPT !.display = "none"]

Looks ==
    {Shown, Undisplayed,
     [Shown EXCEPT !.width = 0], [Shown EXCEPT !.height = 0],
     [Shown EXCEPT !.width = 0, !.height = 0],
     [Shown EXCEPT !.visibility = "hidden"], [Shown EXCEPT !.opacity = "0"]}

Tags == {"a", "button", "span"}

\* the tags 'button, [role="button"], a, [role="link"], ...' selects
ariaSelectors == {"a", "button"}

\* the tags of the selectors array, in its order
selectors == <<"a", "button">>

\* the aria-labels and texts that contain the search text
Holding == {Str(1, TRUE), Str(2, TRUE)}

Element(tag, aria, text, look) ==
    [tag |-> tag, aria |-> aria, text |-> text, look |-> look]

\* documents of the ranking: labels and texts of every length, elements
\* displayed or not
RankedElements ==
    {Element(t, a, x, l) :
        t \in Tags, a \in {Empty} \cup Holding,
        x \in {Str(2, FALSE)} \cup Holding, l \in {Shown, Undisplayed}}

\* documents of the visibility test: every look, texts holding the search
\* text
LookElements ==
    {Element(t, Empty, x, l) :
        t \in {"button", "span"}, x \in Holding, l \in Looks}

\* documents of the modes without text: only tag and look matter
PlainElements ==
    {Element(t, Empty, Str(2, FALSE), l) :
        t \in Tags, l \in {Shown, Undisplayed}}

\* el.textContent || ... || el.getAttribute('aria-label') || ...
getText(el) == IF el.text.len > 0 THEN el.text ELSE el.aria

isVisible(el) ==
    /\ ~(el.look.width = 0 /\ el.look.height = 0)
    /\ el.look.display # "none"
    /\ el.look.visibility # "hidden"
    /\ el.look.opacity # "0"

\* document.querySelectorAll(selector), as indices in document order
RECURSIVE querySelectorAll(_, _, _)
querySelectorAll(dom, sel, from) ==
    IF from > Len(dom) THEN << >>
    ELSE (IF sel = "*" \/ dom[from].tag = sel \/
             (sel = "aria" /\ dom[from].tag \in ariaSelectors)
          THEN <<from>> ELSE << >>)
            \o querySelectorAll(dom, sel, from + 1)

RECURSIVE ScanLast(_, _, _, _)
\* the loop with <= for <: of the elements of one length the last one wins
ScanLast(dom, list, byLabel, best) ==
    IF list = << >> THEN best
    ELSE LET el == dom[Head(list)]
             t == IF byLabel THEN el.aria ELSE getText(el)
             bestLen == IF byLabel THEN dom[best].aria.len
                        ELSE getText(dom[best]).len
             better == /\ t.has
                       /\ best = 0 \/ t.len <= bestLen
                       /\ isVisible(el)
         IN ScanLast(dom, Tail(list), byLabel,
                     IF better THEN Head(list) ELSE best)

RECURSIVE Scan(_, _, _, _)
\* one for loop over a list of elements: best is 0 for null, and bestLen is
\* Infinity exactly as long as best is null
Scan(dom, list, byLabel, best) ==
    IF list = << >> THEN best
    ELSE LET el == dom[Head(list)]
             t == IF byLabel THEN el.aria ELSE getText(el)
             bestLen == IF byLabel THEN dom[best].aria.len
                        ELSE getText(dom[best]).len
             better == /\ t.has
                       /\ best = 0 \/ t.len < bestLen
                       /\ isVisible(el)
         IN Scan(dom, Tail(list), byLabel, IF better THEN Head(list) ELSE best)

RECURSIVE ScanSelectors(_, _, _)
\* for (var i = 0; i < selectors.length; i++) { ... }
ScanSelectors(dom, i, best) ==
    IF i > Len(selectors) THEN best
    ELSE ScanSelectors(dom, i + 1,
            Scan(dom, querySelectorAll(dom, selectors[i], 1), FALSE, best))

Clicked(i) == [message |-> "Clicked", el |-> i, scrolled |-> i, clicked |-> i]

Missed(m) == [message |-> m, el |-> 0, scrolled |-> 0, clicked |-> 0]

\* the script with the scan of all elements as its only pass
clickElementOnePass(dom) ==
    LET best == Scan(dom, querySelectorAll(dom, "*", 1), FALSE, 0)
    IN IF best = 0 THEN Missed("No element found with text") ELSE Clicked(best)

\* the script of Browser.clickElement
clickElementScript(dom) ==
    LET byLabel == Scan(dom, querySelectorAll(dom, "aria", 1), TRUE, 0)
        bySelector == IF byLabel = 0 THEN ScanSelectors(dom, 1, 0)
                      ELSE byLabel
        best == IF bySelector = 0
                THEN Scan(dom, querySelectorAll(dom, "*", 1), FALSE, 0)
                ELSE bySelector
    IN IF best = 0 THEN Missed("No element found with text") ELSE Clicked(best)

\* the script of Browser.clickSelector
clickSelectorScript(dom, sel) ==
    LET elements == querySelectorAll(dom, sel, 1)
        byLabel == Scan(dom, elements, TRUE, 0)
        best == IF byLabel = 0 THEN Scan(dom, elements, FALSE, 0)
                ELSE byLabel
    IN IF elements = << >> THEN Missed("No element found for selector")
       ELSE IF best = 0 THEN Missed("No element found with text")
       ELSE Clicked(best)

\* the script of Browser.clickDirect
clickDirectScript(dom, sel) ==
    LET elements == querySelectorAll(dom, sel, 1)
    IN IF elements = << >> THEN Missed("No element found for selector")
       ELSE Clicked(Head(elements))

\* the script without its test of el: it scrolls and clicks whatever
\* elementFromPoint answers
clickCoordinatesUnchecked(dom, hit) == Clicked(hit)

\* the script of Browser.clickCoordinates; hit is what
\* document.elementFromPoint(x, y) answers, 0 for null
clickCoordinatesScript(dom, hit) ==
    IF hit = 0 THEN Missed("No element found at coordinates")
    ELSE Clicked(hit)

Click(mode, dom, sel, hit) ==
    [op |-> "click", mode |-> mode, dom |-> dom, selector |-> sel,
     hit |-> hit, result |-> Missed("none"), stage |-> "page"]

ScopeSelectors == Tags \cup {"*"}

Documents(elements) == Strings(elements, MaxElems)

\* a click with a text, in the document d
TextClick(d) ==
    \/ call = Click("element", d, "", 0)
    \/ \E q \in ScopeSelectors : call = Click("selector", d, q, 0)

\* a click without a text, in the document d
PlainClick(d) ==
    \/ \E q \in ScopeSelectors : call = Click("direct", d, q, 0)
    \/ \E h \in 0..Len(d) : call = Click("coordinates", d, "", h)

\* the page runs the script the Client built
RunClick ==
    /\ call.op = "click" /\ call.stage = "page"
    /\ call' =
         [call EXCEPT
             !.result =
                 CASE call.mode = "element" -> clickElementScript(call.dom)
                   [] call.mode = "selector" ->
                         clickSelectorScript(call.dom, call.selector)
                   [] call.mode = "direct" ->
                         clickDirectScript(call.dom, call.selector)
                   [] OTHER -> clickCoordinatesScript(call.dom, call.hit),
             !.stage = "done"]
    /\ UNCHANGED scriptFrame

NextClick == RunClick

----------------------------------------------------------------------------
(* The mode of a click: the arguments of the click tool, through            *)
(* Mcp.handleClick and Client.clickElement (SpecMode).  An optional         *)
(* argument is "undefined" when the request does not carry it.              *)

Undefined == "undefined"

\* !value of a string argument
Falsy(v) == v \in {Undefined, ""}

Texts == {Undefined, "", "sign in"}

Selectors == {Undefined, "", "#go"}

Keys == {Undefined, "enter"}

\* coordinates written as strings: 0 is a coordinate, and is not undefined
Coordinates == {Undefined, "0", "7"}

ClickArgs ==
    [text : Texts, selector : Selectors, key : Keys,
     x : Coordinates, y : Coordinates]

ClickRequest(args) ==
    [op |-> "mode", args |-> args, mode |-> "none", stage |-> "handler"]

\* Mcp.handleClick up to its call of the Client
HandleClick ==
    /\ call.op = "mode" /\ call.stage = "handler"
    /\ LET args == call.args
       IN call' =
            IF /\ Falsy(args.text) /\ Falsy(args.selector) /\ Falsy(args.key)
               /\ args.x = Undefined \/ args.y = Undefined
            THEN [call EXCEPT !.mode = "missing", !.stage = "done"]
            ELSE IF ~Falsy(args.key)
            THEN [call EXCEPT !.mode = "keypress", !.stage = "done"]
            ELSE [call EXCEPT !.stage = "client"]
    /\ UNCHANGED scriptFrame

\* Client.clickElement choosing the script of the Browser
ChooseScript ==
    /\ call.op = "mode" /\ call.stage = "client"
    /\ LET args == call.args
       IN call' =
            [call EXCEPT
                !.mode =
                    IF ~Falsy(args.text) /\ ~Falsy(args.selector)
                    THEN "selector"
                    ELSE IF ~Falsy(args.text) THEN "element"
                    ELSE IF args.x # Undefined /\ args.y # Undefined
                    THEN "coordinates"
                    ELSE "direct",
                !.stage = "done"]
    /\ UNCHANGED scriptFrame

NextMode ==
    \/ HandleClick
    \/ ChooseScript

----------------------------------------------------------------------------
(* The scroll of a scroll request: the arguments of the scroll tool,        *)
(* through Mcp.handleScroll, Client.scrollToPage and Client.scrollByPixels, *)
(* on a page of the given geometry (SpecScrollArgs).  An optional number    *)
(* is None when the request does not carry it.                              *)

MaxPixels == 2      \* largest pixel count of a request

None == [given |-> FALSE, v |-> 0]

Some(n) == [given |-> TRUE, v |-> n]

Directions == {Undefined, "", "up", "down"}

ScrollArgs ==
    [page : {None} \cup {Some(n) : n \in 0..MaxPage},
     direction : Directions,
     pixels : {None} \cup {Some(n) : n \in 0..MaxPixels}]

InvalidArguments == "Invalid arguments"
MissingArguments == "Missing required arguments"

\* window.scrollTo(0, y) and window.scrollBy(0, delta)
scrollTo(y) == [script |-> "scrollTo", by |-> y]

scrollBy(delta) == [script |-> "scrollBy", by |-> delta]

\* scrollByPixels without the sign of the direction
scrollByPixelsUnsigned(direction, pixels) == <<scrollBy(pixels)>>

\* const delta = direction === 'up' ? -pixels : pixels
scrollByPixelsScript(direction, pixels) ==
    <<scrollBy(IF direction = "up" THEN 0 - pixels ELSE pixels)>>

ScrollRequest(args, innerHeight, scrollHeight) ==
    [op |-> "scrollArgs", args |-> args, innerHeight |-> innerHeight,
     scrollHeight |-> scrollHeight, scripts |-> << >>, message |-> "none",
     stage |-> "handler"]

\* Mcp.handleScroll: the test of the arguments
HandleScroll ==
    /\ call.op = "scrollArgs" /\ call.stage = "handler"
    /\ LET args == call.args
       IN call' =
            IF /\ args.page.given
               /\ ~Falsy(args.direction) \/ args.pixels.given
            THEN [call EXCEPT !.message = InvalidArguments, !.stage = "done"]
            ELSE IF ~args.page.given /\ Falsy(args.direction)
            THEN [call EXCEPT !.message = MissingArguments, !.stage = "done"]
            ELSE [call EXCEPT !.stage = "client"]
    /\ UNCHANGED scriptFrame

\* the call of the Client handleScroll makes, and its report of the page
ClientScroll ==
    /\ call.op = "scrollArgs" /\ call.stage = "client"
    /\ LET args == call.args
       IN call' =
            [call EXCEPT
                !.scripts =
                    IF args.page.given
                    THEN <<scrollTo(ScrollY(args.page.v, call.scrollHeight,
                                            call.innerHeight))>>
                    ELSE IF args.pixels.given
                    THEN scrollByPixelsScript(args.direction, args.pixels.v)
                    ELSE scrollByPixelsScript(args.direction,
                                              call.innerHeight),
                !.message = "page info",
                !.stage = "done"]
    /\ UNCHANGED scriptFrame

NextScrollArgs ==
    \/ HandleScroll
    \/ ClientScroll

----------------------------------------------------------------------------
(* The wrapper of Client.executeScript (SpecWrap).  A script is the         *)
(* sequence of its characters, built here from a few pieces; a script of    *)
(* the Browser is what serialize makes of a function body.                  *)

MaxPieces == 4      \* pieces of a script or of a function body

Pieces ==
    {<<" ">>, <<"x">>, <<"r", "e", "t", "u", "r", "n">>,
     <<"(", "f", "u", "n", "c", "t", "i", "o", "n">>,
     <<"(", "(", ")">>, <<"=", ">">>}

RECURSIVE Flat(_)
Flat(pieces) ==
    IF pieces = << >> THEN << >> ELSE Head(pieces) \o Flat(Tail(pieces))

\* script.trimStart() that trims nothing
trimNothing(str) == str

RECURSIVE trimStart(_)
trimStart(str) ==
    IF str # << >> /\ Head(str) = " " THEN trimStart(Tail(str)) ELSE str

startsWith(str, prefix) ==
    Len(str) >= Len(prefix) /\ SubSeq(str, 1, Len(prefix)) = prefix

RECURSIVE includes(_, _)
includes(str, part) ==
    IF Len(str) < Len(part) THEN FALSE
    ELSE startsWith(str, part) \/ includes(Tail(str), part)

\* the prefixes of hasFunction
CallWrappers ==
    {<<"(", "f", "u", "n", "c", "t", "i", "o", "n">>,
     <<"(", "(", ")", " ", "=", ">">>, <<"(", "(", ")", "=", ">">>}

\* (function(){ ... })()
Wrapped(script) ==
    <<"(", "f", "u", "n", "c", "t", "i", "o", "n", "(", ")", "{">>
        \o script \o <<"}", ")", "(", ")">>

\* Client.executeScript, up to its call of appleScript
executeScriptWrapped(script) ==
    LET trimmed == trimStart(script)
        hasReturn == includes(script, <<"r", "e", "t", "u", "r", "n", " ">>)
        hasFunction == \E w \in CallWrappers : startsWith(trimmed, w)
    IN IF hasReturn /\ ~hasFunction THEN Wrapped(script) ELSE script

\* '(' + fn.toString() + ')(' + params + ')' for function script() { body }
serializeFunction(body) ==
    <<"(", "f", "u", "n", "c", "t", "i", "o", "n", " ", "s", "c", "r", "i",
      "p", "t", "(", ")", " ", "{">> \o body \o <<"}", ")", "(", ")">>

WrapCall(origin, text) ==
    [op |-> "wrap", origin |-> origin, text |-> text, script |-> << >>,
     dispatched |-> << >>, stage |-> "caller"]

\* the caller hands its script to executeScript: a tool's own text, or a
\* script of the Browser
CallExecuteScript ==
    /\ call.op = "wrap" /\ call.stage = "caller"
    /\ call' = [call EXCEPT
                   !.script = IF call.origin = "serialize"
                              THEN serializeFunction(call.text)
                              ELSE call.text,
                   !.stage = "client"]
    /\ UNCHANGED scriptFrame

WrapScript ==
    /\ call.op = "wrap" /\ call.stage = "client"
    /\ call' = [call EXCEPT !.dispatched = executeScriptWrapped(call.script),
                            !.stage = "done"]
    /\ UNCHANGED scriptFrame

NextWrap ==
    \/ CallExecuteScript
    \/ WrapScript

----------------------------------------------------------------------------
(* The script of Browser.typeText, run in a page (SpecType).  The document  *)
(* is the sequence of its elements; active is the index of                  *)
(* document.activeElement, 0 for the body; value and form are the value of  *)
(* the target before the call and whether it belongs to a form.             *)

MaxInputs == 2      \* elements of a document typed into

\* text inputs, text areas, checkboxes, plain and contenteditable blocks
Kinds == {"input", "textarea", "checkbox", "div", "editable"}

\* shown is offsetParent !== null
Field(kind, shown) == [kind |-> kind, shown |-> shown]

tagName(el) ==
    CASE el.kind \in {"input", "checkbox"} -> "INPUT"
      [] el.kind = "textarea" -> "TEXTAREA"
      [] OTHER -> "DIV"

RECURSIVE querySelector(_, _, _)
\* document.querySelector(selector) for a tag selector, 0 for null
querySelector(dom, selector, from) ==
    IF from > Len(dom) THEN 0
    ELSE IF tagName(dom[from]) = selector THEN from
    ELSE querySelector(dom, selector, from + 1)

\* the focused element is one to type into
Focused(dom, at) ==
    /\ at # 0
    /\ \/ tagName(dom[at]) \in {"INPUT", "TEXTAREA"}
       \/ dom[at].kind = "editable"

RECURSIVE firstVisibleInput(_, _)
\* the loop over 'input:not(...), textarea' up to its break
firstVisibleInput(dom, i) ==
    IF i > Len(dom) THEN 0
    ELSE IF dom[i].kind \in {"input", "textarea"} /\ dom[i].shown THEN i
    ELSE firstVisibleInput(dom, i + 1)

\* the value written without regard to append
newValReplaced(append, value, text) == text

\* append ? (el.value || '') + text : text
newVal(append, value, text) == IF append THEN value \o text ELSE text

NotWritten == [done |-> FALSE, v |-> << >>]

TypeMiss(m) == [message |-> m, el |-> 0, written |-> NotWritten, log |-> << >>]

\* the script of Browser.typeText.  The native value setter of an input or
\* a text area throws a TypeError on any other element.
typeTextScript(c) ==
    LET el == IF c.selector # "" THEN querySelector(c.dom, c.selector, 1)
              ELSE IF Focused(c.dom, c.active) THEN c.active
              ELSE firstVisibleInput(c.dom, 1)
    IN IF c.selector # "" /\ el = 0
       THEN TypeMiss("No element found for selector")
       ELSE IF el = 0 THEN TypeMiss("No input element found")
       ELSE IF tagName(c.dom[el]) \notin {"INPUT", "TEXTAREA"}
       THEN [message |-> "TypeError", el |-> el, written |-> NotWritten,
             log |-> <<"focus", "scrollIntoView">>]
       ELSE [message |-> IF c.submit THEN "Typed and submitted in"
                         ELSE "Typed in",
             el |-> el,
             written |-> [done |-> TRUE,
                          v |-> newVal(c.append, c.value, c.text)],
             log |-> <<"focus", "scrollIntoView", "value", "input",
                       "change">>
                     \o (IF c.submit
                         THEN <<"keydown", "keypress", "keyup">>
                                 \o (IF c.form THEN <<"submit">> ELSE << >>)
                         ELSE << >>)]

TypeCall(dom, at, selector, append, submit, value, form) ==
    [op |-> "type", dom |-> dom, active |-> at, selector |-> selector,
     append |-> append, submit |-> submit, text |-> <<"t">>,
     value |-> value, form |-> form, result |-> TypeMiss("none"),
     stage |-> "page"]

\* the page runs the script the Client built
RunTypeText ==
    /\ call.op = "type" /\ call.stage = "page"
    /\ call' = [call EXCEPT !.result = typeTextScript(call),
                            !.stage = "done"]
    /\ UNCHANGED scriptFrame

NextType == RunTypeText

InitClient ==
    /\ active = FALSE
    /\ tool = [p \in Procs |-> "none"]
    /\ prog = [p \in Procs |-> << >>]
    /\ phase = [p \in Procs |-> "poll"]
    /\ elapsed = [p \in Procs |-> 0]
    /\ found = [p \in Procs |-> "none"]
    /\ res = [p \in Procs |-> "none"]
    /\ issued = [p \in Procs |-> FALSE]
    /\ chan = "none"
    /\ wins = NoWindow
    /\ page = BlankPage
    /\ doc = FreshDoc
    /\ local = [p \in Procs |-> NoLocal]

Init ==
    /\ InitClient
    /\ pageLoadTimeout = EarlyInterval
    /\ conc = 2
    /\ env = HostDefaults
    /\ call = Idle

Next ==
    \/ \E p \in Procs, r \in Requests : Deliver(p, r)
    \/ \E p \in Procs : Respond(p)
    \/ \E p \in Procs : appleScript(p)
    \/ \E p \in Procs : SetActive(p)
    \/ \E p \in Procs : Sleep(p)
    \/ \E p \in Procs : Subprocess(p)
    \/ \E p \in Procs : ReadFile(p)
    \/ \E p \in Procs : ReturnValue(p)
    \/ \E p \in Procs : EarlyPoll(p)
    \/ \E p \in Procs : EarlyInject(p)
    \/ \E p \in Procs : PollSleep(p)
    \/ \E p \in Procs : LoadPoll(p)
    \/ \E p \in Procs : SelectorPoll(p)
    \/ Commit
    \/ Progress
    \/ SelectorAppears

Spec == Init /\ [][Next]_vars

InitNav ==
    /\ InitClient
    /\ pageLoadTimeout \in TimeoutValues
    /\ conc = 1
    /\ env = HostDefaults
    /\ call = Idle

SpecNav == InitNav /\ [][Next]_vars

SpecPage == Init /\ [][NextPage]_vars

InitEnv ==
    /\ InitClient
    /\ pageLoadTimeout = EarlyInterval
    /\ conc = 1
    /\ env \in Hosts
    /\ call = Idle

\* the requests whose handlers ask the host: search runs defaults,
\* screenshot runs screencapture and reads its file, and read parses what
\* the page queries print; open and close bracket the session
HostRequests ==
    {r \in Requests :
        r.tool \in {"open", "close", "search", "screenshot", "read"}}

NextEnv ==
    \/ \E p \in Procs, r \in HostRequests : Deliver(p, r)
    \/ \E p \in Procs : Respond(p)
    \/ \E p \in Procs : appleScript(p)
    \/ \E p \in Procs : SetActive(p)
    \/ \E p \in Procs : Subprocess(p)
    \/ \E p \in Procs : ReadFile(p)
    \/ \E p \in Procs : ReturnValue(p)
    \/ \E p \in Procs : EarlyPoll(p)
    \/ \E p \in Procs : EarlyInject(p)
    \/ \E p \in Procs : PollSleep(p)
    \/ \E p \in Procs : LoadPoll(p)
    \/ Commit
    \/ Progress
    \/ SelectorAppears

SpecEnv == InitEnv /\ [][NextEnv]_vars

\* the configuration of a script-builder specification
InitScript ==
    /\ InitClient
    /\ pageLoadTimeout = EarlyInterval
    /\ conc = 1
    /\ env = HostDefaults

InitScroll == InitScript /\ call \in ScrollCalls

SpecScroll == InitScroll /\ [][NextScroll]_vars

InitBuild == InitScript /\ call \in ScriptCalls(ScriptChars, Values)

SpecScript == InitBuild /\ [][NextScript]_vars

InitClick ==
    /\ InitScript
    /\ \/ \E d \in Documents(RankedElements) : TextClick(d)
       \/ \E d \in Documents(PlainElements) : PlainClick(d)

SpecClick == InitClick /\ [][NextClick]_vars

InitVisible == InitScript /\ \E d \in Documents(LookElements) : TextClick(d)

SpecVisible == InitVisible /\ [][NextClick]_vars

InitMode == InitScript /\ \E args \in ClickArgs : call = ClickRequest(args)

SpecMode == InitMode /\ [][NextMode]_vars

InitScrollArgs ==
    /\ InitScript
    /\ \E args \in ScrollArgs, innerHeight \in 1..MaxInnerHeight,
          scrollHeight \in 0..MaxScrollHeight :
          call = ScrollRequest(args, innerHeight, scrollHeight)

SpecScrollArgs == InitScrollArgs /\ [][NextScrollArgs]_vars

InitWrap ==
    /\ InitScript
    /\ \E pieces \in UNION {[1..k -> Pieces] : k \in 0..MaxPieces},
          origin \in {"execute", "serialize"} :
          call = WrapCall(origin, Flat(pieces))

SpecWrap == InitWrap /\ [][NextWrap]_vars

InitType ==
    /\ InitScript
    /\ \E dom \in UNION {[1..k -> {Field(kind, shown) :
                                      kind \in Kinds, shown \in BOOLEAN}] :
                              k \in 0..MaxInputs},
          selector \in {"", "TEXTAREA", "DIV"},
          append \in BOOLEAN, submit \in BOOLEAN,
          value \in {<< >>, <<"o">>}, form \in BOOLEAN :
          \E at \in 0..Len(dom) :
              call = TypeCall(dom, at, selector, append, submit, value,
                              form)

SpecType == InitType /\ [][NextType]_vars

----------------------------------------------------------------------------
(* Properties *)

Stepped(p) == prog'[p] # prog[p]

Returned(p) == prog'[p] = Tail(prog[p])

Failed(p) == res[p] \notin {"none", "ok"}

NoCommand(p) ==
    /\ chan' = chan
    /\ issued' = issued
    /\ wins' = wins
    /\ page' = page

\* the commands of openSession; every other command opens a Client
\* operation or is an executeScript call
OpenCommands == {"activate", "createDocument", "setBounds"}

\* C1: openSession called while the session is active fails with the
\* session-already-active error, issues no automation command and leaves
\* the session active.
C1_OpenWhileActive ==
    [][\A p \in Procs :
          (/\ At(p, "cmd")
           /\ Head(prog[p]).n = "activate"
           /\ active
           /\ Stepped(p))
          => (/\ res'[p] = AlreadyActive
              /\ prog'[p] = << >>
              /\ NoCommand(p)
              /\ active')]_vars

C1_Witness ==
    \E p \in Procs :
        /\ tool[p] = "open"
        /\ res[p] = AlreadyActive
        /\ ~issued[p]
        /\ active

\* C2: while the session is inactive, every Client operation other than
\* openSession (and every executeScript call made inside one) fails with
\* the no-active-session error before issuing any automation command, and
\* the session stays inactive.
C2_InactiveFails ==
    [][\A p \in Procs :
          (/\ \/ At(p, "cmd") /\ Head(prog[p]).n \notin OpenCommands
              \/ /\ At(p, "load") \/ At(p, "wfs")
                 /\ phase[p] = "poll"
                 /\ TimeLeft(elapsed[p])
           /\ ~active
           /\ Stepped(p))
          => (/\ res'[p] = NoSession
              /\ prog'[p] = << >>
              /\ NoCommand(p)
              /\ ~active')]_vars

C2_Witness ==
    \E p \in Procs :
        /\ tool[p] = "window"
        /\ res[p] = NoSession
        /\ ~issued[p]
        /\ ~active

\* C3: the session flag changes only when openSession completes (inactive
\* to active) or closeSession completes (active to inactive); no other
\* operation changes it.
C3_FlagOwnedBySession ==
    [][active' # active
          => \E p \in Procs :
                /\ At(p, "set")
                /\ Returned(p)
                /\ issued[p]
                /\ \/ tool[p] = "open" /\ ~active /\ active'
                   \/ tool[p] = "close" /\ active /\ ~active']_vars

C3_Witness ==
    \E p \in Procs :
        /\ tool[p] \in {"navigate", "click", "type", "scroll", "window",
                         "screenshot", "search", "execute"}
        /\ res[p] = "ok"
        /\ active

\* C4: search invoked while the session is inactive fails with the
\* no-active-session error at once: no provider lookup is run first.
C4_SearchInactive ==
    [][\A p \in Procs :
          (/\ tool[p] = "search"
           /\ At(p, "sub")
           /\ ~active
           /\ Stepped(p))
          => res'[p] = NoSession]_vars

\* C5: tool invocations are strictly sequential: a request that has
\* issued an automation command issues its next one before any other
\* request issues one.
C5_Sequential ==
    [][\A p \in Procs :
          (chan' = p /\ issued[p] /\ prog[p] # << >>) => chan = p]_vars

\* C6: at most one session is active, also when open requests overlap: an
\* openSession that succeeds finds the session inactive, so of two
\* overlapping open requests only one succeeds.
C6_OneOpenSucceeds ==
    [][\A p \in Procs :
          (At(p, "set") /\ Head(prog[p]).a = 1 /\ Stepped(p)) => ~active]_vars

\* longest time a loop can have run when it takes no further sample
LoopBound ==
    IF pageLoadTimeout <= 0 THEN 0
    ELSE (pageLoadTimeout - 1) + MaxCmdTime + PollInterval

\* C7: waitForSelector stops polling once the timeout has elapsed and then
\* returns false without raising; navigateTo and goHistory hand that false
\* on as their result.
C7_SelectorTimeout ==
    [][\A p \in Procs :
          /\ At(p, "wfs") => elapsed[p] <= LoopBound
          /\ (At(p, "wfs") /\ phase[p] = "poll" /\ ~TimeLeft(elapsed[p])
                 /\ Stepped(p))
             => (found'[p] = "false" /\ Returned(p) /\ ~Failed(p)'
                   /\ NoCommand(p))
          /\ (At(p, "ret") /\ Head(prog[p]).a = 1 /\ Stepped(p))
             => (found'[p] = found[p] /\ found[p] \in {"true", "false"}
                   /\ Returned(p) /\ ~Failed(p)')]_vars

C7_Witness ==
    \E p \in Procs :
        /\ tool[p] = "navigate"
        /\ At(p, "ret")
        /\ found[p] = "false"
        /\ pageLoadTimeout > 0
        /\ HasWindow /\ ~page.sel

C9_CaptureInstalled ==
    \A p \in Procs :
        At(p, "ret") => (HasWindow /\ ~page.pending /\ page.cap)

Records(d) == Len(d.errors) + Len(d.warnings)

OneSetInstalled(d) ==
    /\ d.errorWrappers = 1
    /\ d.warnWrappers = 1
    /\ d.onerror
    /\ d.listeners = 1

Idempotent ==
    /\ doc'.marked => OneSetInstalled(doc')
    /\ (RunErrorCapture /\ doc.marked) => doc' = [doc EXCEPT !.runs = @ + 1]

----------------------------------------------------------------------------
(* C11: for every geometry with scrollHeight >= 0 and innerHeight > 0 and   *)
(* every requested page, getPageInfo reports pages = ceil(scrollHeight /    *)
(* innerHeight), scrollToPage scrolls to (c - 1) * innerHeight with c the   *)
(* page clamped to [1, pages], and the offset is never negative; 2500 over  *)
(* 1000 gives 3 pages and page 5 scrolls to 2000.                           *)

\* the requested page clamped to [1, pages]
Clamped(pg, pages) ==
    IF pg < 1 \/ pages < 1 THEN 1 ELSE IF pg > pages THEN pages ELSE pg

C11_Pagination ==
    /\ Pages(2500, 1000) = 3
    /\ ScrollY(5, 2500, 1000) = 2000
    /\ call.op = "scrollToPage" =>
         /\ call.stage \in {"info", "reported"} =>
              /\ call.pages * call.innerHeight >= call.scrollHeight
              /\ (call.pages - 1) * call.innerHeight < call.scrollHeight
         /\ call.stage \in {"scrolled", "reported"} =>
              /\ call.scrollY >= 0
              /\ call.scrollY =
                   (Clamped(call.page,
                            Pages(call.scrollHeight, call.innerHeight)) - 1)
                     * call.innerHeight

----------------------------------------------------------------------------
(* C12: for every script over an alphabet with backslash, double quote,     *)
(* single quote and $, the AppleScript built by Automation.executeScript is *)
(* the template with its placeholder replaced by exactly the script with    *)
(* every backslash doubled and then every double quote escaped; undoing the *)
(* literal's escaping yields the script unchanged, no quote ends the        *)
(* literal early, and the arguments given to Browser.serialize arrive in    *)
(* the page with their exact values.                                        *)

Representable(args) ==
    \A i \in 1..Len(args) : args[i] \notin Unrepresentable

C12_EscapedRoundTrip ==
    call.op = "script" =>
      /\ call.stage \in {"osa", "run"} =>
           call.osa = Before \o Escaped(call.script) \o After
      /\ call.stage = "run" =>
           /\ call.received.ok
           /\ call.received.script = call.script
           /\ (call.origin = "serialize" /\ Representable(call.args)) =>
                (call.got.ok /\ call.got.values = call.args)

(* C13: serialize lets only JSON-representable values through: with an      *)
(* argument that is a function, undefined or a circular structure it fails  *)
(* instead of returning a script, and a script it returns carries exactly   *)
(* one serialized argument per argument passed.                             *)
C13_OnlyRepresentable ==
    (call.op = "script" /\ call.origin = "serialize"
        /\ call.stage \notin {"args", "threw"}) =>
      /\ Representable(call.args)
      /\ LET e == Evaluate(call.script) IN
           e.ok /\ Len(e.values) = Len(call.args)

\* a finished clickElement or clickSelector
TextClickDone ==
    /\ call.op = "click"
    /\ call.stage = "done"
    /\ call.mode \in {"element", "selector"}

\* the elements a text search ranges over
Scope(c) ==
    IF c.mode = "element" THEN querySelectorAll(c.dom, "*", 1)
    ELSE querySelectorAll(c.dom, c.selector, 1)

\* the visible elements whose computed text contains the search text
Candidates(c) ==
    {i \in {Scope(c)[k] : k \in 1..Len(Scope(c))} :
        isVisible(c.dom[i]) /\ getText(c.dom[i]).has}

(* C14, as stated: among all visible elements whose computed text contains  *)
(* the search text, clickElement and clickSelector click one of minimum     *)
(* computed-text length.                                                    *)
C14_ShortestOverall ==
    (TextClickDone /\ Candidates(call) # {}) =>
        /\ call.result.el \in Candidates(call)
        /\ \A i \in Candidates(call) :
              getText(call.dom[call.result.el]).len
                  <= getText(call.dom[i]).len

RECURSIVE InSelectorOrder(_, _)
\* the elements of the selectors array, selector by selector
InSelectorOrder(dom, i) ==
    IF i > Len(selectors) THEN << >>
    ELSE querySelectorAll(dom, selectors[i], 1) \o InSelectorOrder(dom, i + 1)

\* the tiers of a text search in priority order: the elements of each in
\* scan order, and whether the tier ranks aria-labels or computed texts
Tiers(c) ==
    IF c.mode = "element"
    THEN <<[list |-> querySelectorAll(c.dom, "aria", 1), byLabel |-> TRUE],
           [list |-> InSelectorOrder(c.dom, 1), byLabel |-> FALSE],
           [list |-> querySelectorAll(c.dom, "*", 1), byLabel |-> FALSE]>>
    ELSE <<[list |-> Scope(c), byLabel |-> TRUE],
           [list |-> Scope(c), byLabel |-> FALSE]>>

Ranked(c, t, k) ==
    IF t.byLabel THEN c.dom[t.list[k]].aria ELSE getText(c.dom[t.list[k]])

\* the positions of a tier that are visible and contain the search text
Matching(c, t) ==
    {k \in 1..Len(t.list) :
        Ranked(c, t, k).has /\ isVisible(c.dom[t.list[k]])}

Shortest(c, t) ==
    LET matching == Matching(c, t)
    IN {k \in matching :
           \A j \in matching : Ranked(c, t, k).len <= Ranked(c, t, j).len}

First(S) == CHOOSE k \in S : \A j \in S : k <= j

(* C14, amended: the first tier with a visible match decides.  In it the    *)
(* element of minimum length is clicked (aria-label length in a label tier, *)
(* computed-text length otherwise), and of several of that length the first *)
(* in the scan order of the tier.                                           *)
C14_ShortestInTier ==
    TextClickDone =>
        LET tiers == Tiers(call)
        IN \A n \in 1..Len(tiers) :
              (/\ Matching(call, tiers[n]) # {}
               /\ \A m \in 1..(n - 1) : Matching(call, tiers[m]) = {})
              => /\ call.result.message = "Clicked"
                 /\ call.result.el =
                      tiers[n].list[First(Shortest(call, tiers[n]))]

\* two visible elements with the same text and no label, the button before
\* the link in the document: the link is scanned first and is clicked
C14_Witness ==
    /\ TextClickDone
    /\ call.mode = "element"
    /\ call.dom = <<Element("button", Empty, Str(1, TRUE), Shown),
                    Element("a", Empty, Str(1, TRUE), Shown)>>
    /\ call.result.el = 2

\* the element a finished text search clicked
ClickedElement == call.dom[call.result.el]

(* C15: a text search never clicks an invisible element: the clicked        *)
(* element has no zero dimension, and its display is not none, its          *)
(* visibility not hidden and its opacity not 0.                             *)
C15_NeverInvisible ==
    (TextClickDone /\ call.result.message = "Clicked") =>
        /\ ClickedElement.look.width # 0
        /\ ClickedElement.look.height # 0
        /\ ClickedElement.look.display # "none"
        /\ ClickedElement.look.visibility # "hidden"
        /\ ClickedElement.look.opacity # "0"

\* a click request that went through the mode choice
ModeChosen == call.op = "mode" /\ call.stage = "done"

WithCoordinates == call.args.x # Undefined /\ call.args.y # Undefined

(* C16: a click request (one that names no key to press) that carries both *)
(* x and y is resolved in coordinate mode, with text and selector present   *)
(* or absent, and direct-selector mode is chosen only for a selector        *)
(* without text and without coordinates.                                    *)
C16_CoordinatesFirst ==
    (ModeChosen /\ Falsy(call.args.key)) =>
        /\ WithCoordinates => call.mode = "coordinates"
        /\ call.mode = "direct" =>
              /\ ~Falsy(call.args.selector)
              /\ Falsy(call.args.text)
              /\ ~WithCoordinates

\* a click script that ran in the page
ClickDone == call.op = "click" /\ call.stage = "done"

\* the request has an element to click: one at the coordinates, one the
\* selector matches, or a visible one whose label or text contains the text
Resolves(c) ==
    CASE c.mode = "coordinates" -> c.hit # 0
      [] c.mode = "direct" ->
            \E i \in 1..Len(c.dom) : c.selector \in {"*", c.dom[i].tag}
      [] c.mode = "selector" ->
            \E i \in 1..Len(c.dom) :
                /\ c.selector \in {"*", c.dom[i].tag}
                /\ isVisible(c.dom[i])
                /\ c.dom[i].aria.has \/ getText(c.dom[i]).has
      [] OTHER ->
            \E i \in 1..Len(c.dom) :
                /\ isVisible(c.dom[i])
                /\ \/ c.dom[i].tag \in ariaSelectors /\ c.dom[i].aria.has
                   \/ getText(c.dom[i]).has

NotFound ==
    {"No element found with text", "No element found for selector",
     "No element found at coordinates"}

AtLookup(p) == tool[p] = "search" /\ At(p, "sub")

\* the lookup of this step fails: the output of defaults holds no
\* identifier, or the subprocess itself failed
LookupFails(p) == env.provider = << >> \/ res'[p] = LookupFailed

\* host is the identifier s1.s2...sn read backwards
Mirrors(host, identifier) ==
    /\ Len(host) = Len(identifier)
    /\ \A i \in 1..Len(identifier) :
          host[i] = identifier[Len(identifier) + 1 - i]

RECURSIVE decodeURIComponent(_)
decodeURIComponent(str) ==
    IF str = << >> THEN << >>
    ELSE IF Head(str) # "%"
    THEN <<Head(str)>> \o decodeURIComponent(Tail(str))
    ELSE (CASE SubSeq(str, 2, 3) = <<"2", "0">> -> <<" ">>
            [] SubSeq(str, 2, 3) = <<"2", "6">> -> <<"&">>
            [] OTHER -> <<"%">>)
            \o decodeURIComponent(SubSeq(str, 4, Len(str)))

\* url is the search URL of the host: the mirrored identifier, and the
\* query written without a space or an ampersand
SearchUrlOf(url) ==
    /\ Mirrors(url.host, env.provider)
    /\ \A i \in 1..Len(url.query) : url.query[i] \notin {" ", "&"}
    /\ decodeURIComponent(url.query) = env.query

(* C18: a search whose provider lookup fails (the subprocess fails, or its  *)
(* output holds no identifier) ends with an error in that step, having      *)
(* issued no command and changed neither the page nor the session flag,     *)
(* and with no URL built; a lookup that yields s1.s2...sn builds the URL    *)
(* of host sn...s1 with the encoded query, and that is the URL a search     *)
(* navigates to.                                                            *)
C18_LookupDecides ==
    [][\A p \in Procs :
          /\ (AtLookup(p) /\ Stepped(p)) =>
                /\ NoCommand(p)
                /\ active' = active
                /\ LookupFails(p) =>
                      /\ prog'[p] = << >>
                      /\ res'[p] \notin {"none", "ok"}
                      /\ local'[p].url = NoUrl
                /\ ~LookupFails(p) =>
                      /\ Returned(p)
                      /\ SearchUrlOf(local'[p].url)
          /\ (/\ tool[p] = "search"
              /\ At(p, "cmd")
              /\ Head(prog[p]).n = "navigateTo"
              /\ issued'[p])
             => SearchUrlOf(local[p].url) /\ env.provider # << >>]_vars

\* with a session open, a search found no identifier and failed without a
\* command
C18_Witness ==
    \E p \in Procs :
        /\ tool[p] = "search"
        /\ env.provider = << >>
        /\ active
        /\ res[p] = NoIdentifier
        /\ ~issued[p]
        /\ wins.n > 0

(* C19: once takeScreenshot has returned or failed, the temporary file it   *)
(* named does not exist.                                                    *)
C19_NoTemporaryFile ==
    \A p \in Procs :
        (tool[p] = "screenshot" /\ prog[p] = << >>) => ~local[p].tmp

(* C20: unparsable output of a page query makes no operation fail:          *)
(* getConsoleErrors, listTabs and getPageInfo complete, so no request ends  *)
(* with the error of JSON.parse.                                            *)
C20_MalformedRecovered ==
    \A p \in Procs : res[p] # ParseFailed

\* a scroll request that went through its handler
ScrollDone == call.op = "scrollArgs" /\ call.stage = "done"

\* the signed distance of a directional scroll of n pixels
Signed(direction, n) ==
    CASE direction = "up" -> 0 - n
      [] direction = "down" -> n

(* C21: a scroll request applies exactly one scroll: by -p (up) or +p      *)
(* (down) with a direction and pixels p, by one innerHeight in the          *)
(* direction with a direction alone, to the page with page alone; with page *)
(* and a direction or pixels, or with neither page nor direction, it        *)
(* applies none and answers with the argument error.                        *)
C21_OneScroll ==
    ScrollDone =>
        LET args == call.args
            directed == args.direction \in {"up", "down"}
        IN CASE args.page.given /\ (directed \/ args.pixels.given) ->
                  call.scripts = << >> /\ call.message = InvalidArguments
             [] args.page.given /\ ~directed /\ ~args.pixels.given ->
                  /\ Len(call.scripts) = 1
                  /\ call.scripts[1].script = "scrollTo"
             [] ~args.page.given /\ directed /\ args.pixels.given ->
                  call.scripts =
                      <<scrollBy(Signed(args.direction, args.pixels.v))>>
             [] ~args.page.given /\ directed /\ ~args.pixels.given ->
                  call.scripts =
                      <<scrollBy(Signed(args.direction, call.innerHeight))>>
             [] ~args.page.given /\ ~directed ->
                  call.scripts = << >> /\ call.message = MissingArguments

\* a request to scroll up by two pixels scrolled by -2
C21_Witness ==
    /\ ScrollDone
    /\ call.args = [page |-> None, direction |-> "up", pixels |-> Some(2)]
    /\ call.scripts = <<scrollBy(0 - 2)>>

\* executeScript has chosen what it dispatches
WrapDone == call.op = "wrap" /\ call.stage = "done"

\* the script holds 'return ' somewhere
HasReturn(str) ==
    \E i \in 1..Len(str) :
        /\ i + 6 <= Len(str)
        /\ SubSeq(str, i, i + 6) = <<"r", "e", "t", "u", "r", "n", " ">>

\* after its leading blanks the script goes on with a call wrapper
BeginsWithWrapper(str) ==
    \E i \in 1..Len(str), w \in CallWrappers :
        /\ \A j \in 1..(i - 1) : str[j] = " "
        /\ str[i] # " "
        /\ i + Len(w) - 1 <= Len(str)
        /\ SubSeq(str, i, i + Len(w) - 1) = w

(* C23: executeScript wraps the script in a self-invoking function exactly  *)
(* when the script contains 'return ' and, trimmed of leading whitespace,   *)
(* does not begin with '(function', '(() =>' or '(()=>'; every script made  *)
(* by serialize is dispatched as it is.                                     *)
C23_WrapOnce ==
    WrapDone =>
        /\ call.dispatched =
              IF HasReturn(call.script) /\ ~BeginsWithWrapper(call.script)
              THEN Wrapped(call.script) ELSE call.script
        /\ call.origin = "serialize" => call.dispatched = call.script

\* a script that returns and begins, after a blank, with a call wrapper is
\* dispatched unwrapped
C23_Witness ==
    /\ WrapDone
    /\ call.origin = "execute"
    /\ startsWith(call.script, <<" ">>)
    /\ HasReturn(call.script)
    /\ BeginsWithWrapper(call.script)
    /\ call.dispatched = call.script

\* a finished clickElement
ElementClickDone == TextClickDone /\ call.mode = "element"

\* the visible elements of the aria-label pass whose label holds the text
LabelMatches(dom) ==
    {i \in 1..Len(dom) :
        /\ dom[i].tag \in ariaSelectors
        /\ dom[i].aria.has
        /\ isVisible(dom[i])}

\* the visible elements whose computed text holds the text, among those of
\* the given tags
TextMatches(dom, tags) ==
    {i \in 1..Len(dom) :
        /\ dom[i].tag \in tags
        /\ getText(dom[i]).has
        /\ isVisible(dom[i])}

SelectorTags == {selectors[i] : i \in 1..Len(selectors)}

(* C22: the tiers of clickElement are tried in order.  With a visible       *)
(* aria-label match the element of the shortest matching label is clicked, *)
(* whatever texts later tiers hold; else, with a visible match among the    *)
(* prioritized selectors, one of the shortest text among them; the scan of  *)
(* all elements decides only when both passes matched nothing; and the      *)
(* choice in a tier is a minimum over all of its matches.                   *)
C22_TierOrder ==
    ElementClickDone =>
        LET dom == call.dom
            el == call.result.el
            labelled == LabelMatches(dom)
            prioritized == TextMatches(dom, SelectorTags)
            any == TextMatches(dom, Tags)
        IN IF labelled # {}
           THEN /\ el \in labelled
                /\ \A i \in labelled : dom[el].aria.len <= dom[i].aria.len
           ELSE IF prioritized # {}
           THEN /\ el \in prioritized
                /\ \A i \in prioritized :
                      getText(dom[el]).len <= getText(dom[i]).len
           ELSE IF any # {}
           THEN /\ el \in any
                /\ \A i \in any : getText(dom[el]).len <= getText(dom[i]).len
           ELSE call.result.message = "No element found with text"

\* a button with a long matching label is clicked although a span holds
\* the text in fewer characters
C22_Witness ==
    /\ ElementClickDone
    /\ call.dom = <<Element("span", Empty, Str(1, TRUE), Shown),
                    Element("button", Str(2, TRUE), Str(2, FALSE), Shown)>>
    /\ call.result.el = 2

\* a typeText script that ran in the page
TypeDone == call.op = "type" /\ call.stage = "done"

Typed == call.result.message \in {"Typed in", "Typed and submitted in"}

\* what the script did to the page after focusing and scrolling
Effects(log) ==
    SelectSeq(log, LAMBDA e : e \notin {"focus", "scrollIntoView"})

\* no target: the selector matches nothing, or without a selector nothing
\* editable is focused and no text input or text area is visible
NoTarget(c) ==
    IF c.selector # ""
    THEN \A i \in 1..Len(c.dom) : tagName(c.dom[i]) # c.selector
    ELSE /\ ~Focused(c.dom, c.active)
         /\ \A i \in 1..Len(c.dom) :
               ~(c.dom[i].kind \in {"input", "textarea"} /\ c.dom[i].shown)

(* C24: a successful type writes the old value followed by the text in      *)
(* append mode and the text alone otherwise, and then dispatches input,     *)
(* change and, in submit mode, keydown, keypress, keyup and the submission  *)
(* of the form if there is one, in this order; with no target it returns a  *)
(* miss message, writes nothing and dispatches nothing.                     *)
C24_TypeInOrder ==
    TypeDone =>
        /\ Typed =>
              /\ call.result.written.done
              /\ call.result.written.v =
                    IF call.append THEN call.value \o call.text
                    ELSE call.text
              /\ Effects(call.result.log) =
                    <<"value", "input", "change">>
                        \o (IF call.submit
                            THEN <<"keydown", "keypress", "keyup">>
                            ELSE << >>)
                        \o (IF call.submit /\ call.form
                            THEN <<"submit">> ELSE << >>)
        /\ NoTarget(call) =>
              /\ call.result.message \in
                    {"No element found for selector",
                     "No input element found"}
              /\ ~call.result.written.done
              /\ call.result.log = << >>

\* text appended to a value and submitted with its form
C24_Witness ==
    /\ TypeDone
    /\ call.append /\ call.submit /\ call.form
    /\ call.value = <<"o">>
    /\ call.result.written = [done |-> TRUE, v |-> <<"o", "t">>]
    /\ Len(call.result.log) = 9

\* C25: a failed automation command never flips the session flag: when one
\* of the three commands of openSession fails, the request ends with the
\* message of the failure and the session stays inactive; when the
\* close-window command of closeSession fails, the request ends with the
\* message and the session stays active.
C25_FailureKeepsFlag ==
    [][\A p \in Procs :
          (/\ At(p, "cmd")
           /\ Head(prog[p]).n \in OpenCommands \cup {"closeWindow"}
           /\ Stepped(p)
           /\ res'[p] = CmdFailed)
          => (/\ prog'[p] = << >>
              /\ active' = active
              /\ Head(prog[p]).n \in OpenCommands => ~active'
              /\ Head(prog[p]).n = "closeWindow" => active')]_vars

C25_Witness ==
    \E p \in Procs :
        /\ tool[p] = "open"
        /\ res[p] = CmdFailed
        /\ prog[p] = << >>
        /\ HasWindow
        /\ ~active

\* C26: whenever the session is active and no closeSession is under way,
\* the window the session opened still exists with at least one tab, so a
\* closeSession can close it and end the session.
C26_WindowWhileActive ==
    (active /\ \A p \in Procs : tool[p] # "close")
        => (HasWindow /\ wins.tabs >= 1)

\* the commands that dispatch a navigation
Dispatches == {"navigateTo", "historyGo"}

\* the step a navigation takes after the step it was at
Follows(was, now) ==
    /\ now.k = "early" <=> (was.k = "cmd" /\ was.n \in Dispatches)
    /\ now.k = "load" <=> was.k = "early"
    /\ (now.k = "cmd" /\ now.n = "errorCapture") <=> was.k = "load"
    /\ now.k = "wfs" => (was.k = "cmd" /\ was.n = "errorCapture")
    /\ now.k = "ret"
         => IF now.a = 1 THEN was.k = "wfs"
            ELSE was.k = "cmd" /\ was.n = "errorCapture"
    /\ (was.k = "cmd" /\ was.n = "errorCapture")
         => now.k \in {"wfs", "ret"}
    /\ was.k = "wfs" => now.k = "ret"

\* C27: navigateTo and goHistory take their steps in one order: the
\* dispatch of the navigation, the poll for the early injection, the poll
\* for the end of the load, the second injection and then, if a selector
\* was given, the poll for the selector; every poll starts with no time
\* used, and without a selector the result is true.
C27_FixedOrder ==
    [][\A p \in Procs :
          (tool[p] = "navigate" /\ prog[p] # << >> /\ Stepped(p))
          => /\ prog'[p] # << >>
                => /\ Returned(p)
                   /\ Follows(Head(prog[p]), Head(prog'[p]))
                   /\ Head(prog'[p]).k \in {"early", "load", "wfs"}
                        => (elapsed'[p] = 0 /\ phase'[p] = "poll")
             /\ (At(p, "ret") /\ Head(prog[p]).a = 0)
                => (found'[p] = "true" /\ Returned(p))]_vars

C27_Witness ==
    \E p \in Procs :
        /\ tool[p] = "navigate"
        /\ At(p, "wfs")
        /\ elapsed[p] = 0
        /\ pageLoadTimeout = MaxTimeout
        /\ HasWindow
        /\ page.ready # "complete"

\* C28: waitForSelector returns true only when a query of the call saw the
\* selector, and whatever the configured timeout, a call made while the
\* selector is on the page returns true.
C28_PresentIsFound ==
    [][\A p \in Procs :
          (At(p, "wfs") /\ Stepped(p))
          => /\ (Returned(p) /\ found'[p] = "true")
                => (page.sel /\ chan' = p /\ issued'[p])
             /\ (/\ phase[p] = "poll"
                 /\ elapsed[p] = 0
                 /\ active /\ HasWindow /\ page.sel
                 /\ Returned(p))
                => found'[p] = "true"]_vars

----------------------------------------------------------------------------
(* Mcp.handleRequest: what a request is answered with (SpecRequest)        *)

\* the names setServerTools registers
ToolNames ==
    {"click", "close", "execute", "navigate", "open", "read", "refresh",
     "screenshot", "scroll", "search", "type", "window"}

\* names no handler is registered under
UnknownNames == {"browse", "Open"}

\* a template string, as the pieces it joins
Template(prefix, value) == <<prefix, value>>

\* Client.response
response(text) == [raised |-> FALSE, content |-> text]

\* the rejection of the promise handleRequest returns
Rejected(e) == [raised |-> TRUE, content |-> e]

\* what the handler of a slot ended with
Outcome(p) == [thrown |-> Failed(p), v |-> res[p]]

\* handleRequest without its try block
handleRequestUncaught(name, outcome) ==
    IF name \notin ToolNames
    THEN response(Template("Unknown tool: ", name))
    ELSE IF outcome.thrown THEN Rejected(outcome.v)
    ELSE response(outcome.v)

handleRequest(name, outcome) ==
    IF name \notin ToolNames
    THEN response(Template("Unknown tool: ", name))
    ELSE IF outcome.thrown
    THEN response(Template("Error: ", outcome.v))
    ELSE response(outcome.v)

\* a request under a name that has no handler: nothing runs
Unknown(p, name) ==
    /\ tool[p] = "none"
    /\ Cardinality(InFlight) < conc
    /\ tool' = [tool EXCEPT ![p] = name]
    /\ UNCHANGED <<active, pageLoadTimeout, conc, prog, phase, elapsed,
                   found, res, issued, chan, wins, page, doc, env, local,
                   call>>

NextRequest ==
    \/ Next
    \/ \E p \in Procs, name \in UnknownNames : Unknown(p, name)

InitRequest ==
    /\ InitClient
    /\ pageLoadTimeout = EarlyInterval
    /\ conc = 1
    /\ env = HostDefaults
    /\ call = Idle

SpecRequest == InitRequest /\ [][NextRequest]_vars

\* the step that answers the request of a slot
Answered(p) == tool[p] # "none" /\ tool'[p] = "none"

Reply(p) == handleRequest(tool[p], Outcome(p))

\* C29: the request handler never fails towards the protocol layer:
\* whatever the tool name and however the handler ended, the request is
\* answered with a response; an error a handler threw is answered with
\* the text 'Error: ' followed by its message, an unknown tool name with
\* the text 'Unknown tool: ' followed by the name; answering changes
\* neither the session flag nor the browser and issues no command.
C29_AlwaysAnswered ==
    [][\A p \in Procs :
          /\ (tool[p] # "none" /\ prog[p] = << >>) => ENABLED Respond(p)
          /\ Answered(p)
             => /\ ~Reply(p).raised
                /\ (tool[p] \in ToolNames /\ Failed(p))
                   => Reply(p).content = <<"Error: ", res[p]>>
                /\ tool[p] \notin ToolNames
                   => Reply(p).content = <<"Unknown tool: ", tool[p]>>
                /\ active' = active
                /\ chan' = chan /\ wins' = wins /\ page' = page]_vars

C29_Witness ==
    \E p \in Procs :
        /\ tool[p] = "close"
        /\ prog[p] = << >>
        /\ res[p] = CmdFailed
        /\ Reply(p) = response(<<"Error: ", CmdFailed>>)
        /\ active

\* the longest an early injection can have run: its last iteration starts
\* before the timeout, makes its query and sleeps
EarlyBound ==
    IF pageLoadTimeout <= 0 THEN 0
    ELSE (pageLoadTimeout - 1) + MaxCmdTime + EarlyInterval

\* a step of injectErrorCaptureEarly in a slot
EarlyActs(p) == At(p, "early") /\ (Stepped(p) \/ phase'[p] # phase[p])

\* the step that hands the capture script to the browser
CaptureRun(p) == EarlyActs(p) /\ phase[p] = "inject" /\ assertActive

\* what injectErrorCaptureEarly does apart from how often it runs the
\* capture script: it stops at the timeout, raises nothing, goes on
\* polling after a failed query, injects only after 'loading' or
\* 'interactive' and returns at 'complete' without injecting
EarlyLoop(p) ==
    /\ At(p, "early") => elapsed[p] <= EarlyBound
    /\ EarlyActs(p)
       => /\ ~Failed(p)'
          /\ Stepped(p) => Returned(p)
    /\ (EarlyActs(p) /\ phase[p] = "poll" /\ ~TimeLeft(elapsed[p]))
       => (Returned(p) /\ NoCommand(p))
    /\ (EarlyActs(p) /\ phase[p] = "poll" /\ TimeLeft(elapsed[p]))
       => /\ page' = page
          /\ Stepped(p) => (HasWindow /\ page.ready = "complete")
          /\ ~Stepped(p) => phase'[p] \in {"sleep", "inject"}
          /\ phase'[p] = "inject"
             => (HasWindow /\ page.ready \in {"loading", "interactive"})
    /\ (EarlyActs(p) /\ phase[p] = "sleep")
       => (phase'[p] = "poll" /\ NoCommand(p))

\* C30, as stated: injectErrorCaptureEarly ends within the configured
\* timeout and raises nothing, a failed query is swallowed, and one call
\* hands the capture script to the browser at most once.
C30_CaptureOnce ==
    [][\A p \in Procs :
          /\ EarlyLoop(p)
          /\ CaptureRun(p) => local[p].runs = 0]_vars

\* C30, as the code has it: injectErrorCaptureEarly ends within the
\* configured timeout and raises nothing, a failed query is swallowed, and
\* a capture script that ran ends the call; one that failed is swallowed
\* as a failed query is, and a later iteration runs the script again.
C30_CaptureUntilDone ==
    [][\A p \in Procs :
          /\ EarlyLoop(p)
          /\ CaptureRun(p)
             => \/ Returned(p) /\ page'.cap /\ chan' = p
                \/ /\ ~Stepped(p) /\ phase'[p] = "sleep" /\ page' = page
                   /\ local'[p].runs = local[p].runs + 1]_vars

C30_Witness ==
    \E p \in Procs :
        /\ At(p, "early")
        /\ local[p].runs = 2
        /\ HasWindow
        /\ active

====
